---- MODULE Spec2Model ----
(***************************************************************************)
(* Position ledger and data-access facade of AI-Trader.                    *)
(*                                                                         *)
(* The primary store is the DuckDB table `positions` (one row per held     *)
(* symbol of a step, or one cash-only row), the journal is the per-agent   *)
(* file position.jsonl (one line per step).  PositionDataAccess writes to  *)
(* both and reads DuckDB first, JSONL second.  PriceDataAccess reads the   *)
(* price tables stock_daily_prices / stock_hourly_prices first and the     *)
(* files merged.jsonl / merged_hourly.jsonl second.                        *)
(*                                                                         *)
(* Timestamps are the strings "YYYY-MM-DD" (daily) and                     *)
(* "YYYY-MM-DD HH:MM:SS" (hourly).  A timestamp is modelled by the number  *)
(* day * SlotBase + slot, slot 0 being the bare date: the order of these   *)
(* numbers is the lexicographic order of the strings the code compares.    *)
(* The column positions.trade_date is a DATE: a timestamp written to it or *)
(* compared with it is cast to its day (CastToDate).                       *)
(***************************************************************************)
EXTENDS Integers, Sequences, FiniteSets, TLC

\* ------------------------------------------------------------------ bounds
MaxSteps == 2
NumDays == 2
NumSlots == 2
MaxQty == 1
MaxCash == 1
MaxRuns == 2
MaxExecutions == 2
NumCalendarDays == 9
NumIngestDays == 3
MaxRewrites == 2
MaxRetries == 5

\* ------------------------------------------------------------ input domains
SlotBase == NumSlots + 1
SymbolSeq == <<"A", "B">>
Symbols == {SymbolSeq[i] : i \in 1..Len(SymbolSeq)}
CASH == "CASH"
NULL == "NULL"
DailySig == "gpt"
HourlySig == "gpt-astock-hour"
Signatures == {DailySig, HourlySig}

\* the daily agent trades on every day, the hourly agent at every slot of the
\* last day
DailyDates == {d * SlotBase : d \in 1..NumDays}
HourlyTimes == {NumDays * SlotBase + s : s \in 1..NumSlots}
TimesOf(signature) == IF signature = HourlySig THEN HourlyTimes ELSE DailyDates

EmptyPos == [x \in {} |-> 0]
BuyAction == [action |-> "buy", symbol |-> "A", amount |-> 1]
SellAction == [action |-> "sell", symbol |-> "B", amount |-> 1]
\* position maps {symbol: quantity, "CASH": cash} a trade hands to a commit: the
\* symbol bought is held; the symbol sold is left with a smaller quantity,
\* possibly 0, or its key is gone
PositionMaps ==
    UNION {[S \cup {CASH} -> 0..(MaxQty + MaxCash)] : S \in SUBSET Symbols}
ResultOf(action, p) ==
    /\ p[CASH] \in 1..MaxCash
    /\ \A s \in DOMAIN p \ {CASH, action.symbol} : p[s] \in 1..MaxQty
    /\ action.action = "buy" =>
           action.symbol \in DOMAIN p /\ p[action.symbol] \in 1..MaxQty
    /\ (action.action = "sell" /\ action.symbol \in DOMAIN p) =>
           p[action.symbol] \in 0..(MaxQty - 1)
TradeInputs ==
    {t \in [action : {BuyAction, SellAction}, positions : PositionMaps] :
        ResultOf(t.action, t.positions)}
NoTradeAction == [action |-> "no_trade", symbol |-> "", amount |-> 0]

VARIABLES
    prefer_duckdb,     \* USE_DUCKDB
    fallback_enabled,  \* DUCKDB_FALLBACK_ENABLED
    positions,         \* rows of the DuckDB table positions, in insertion order
    position_jsonl,    \* signature -> lines of position.jsonl
    history,           \* the write calls made so far, in order
    stock_daily_prices,   \* bars of the DuckDB table stock_daily_prices
    stock_hourly_prices,  \* bars of the DuckDB table stock_hourly_prices
    merged_jsonl,         \* data/A_stock/merged.jsonl (daily bars)
    merged_hourly_jsonl,  \* data/A_stock/merged_hourly.jsonl
    last,              \* outcome of the last facade call
    runs,              \* AgentRunnerService._runs, in insertion order
    runner_event,      \* the last step of the runner: a call or a task step
    runtime_env,       \* the process-wide runtime settings file
    scheduler_config,  \* which scheduler runs, its frequency and the models of its configuration
    executions,        \* the executions of the scheduler, in the order they were fired
    date_range,        \* the last call of calculate_date_range: its inputs and its answer
    daily_prices_csv,  \* A_stock_data/daily_prices_sse_50.csv
    vendor_world,      \* the clock, the exchange and the vendor
    ingest_event,      \* the last step of the ingestor or of its world
    journal_writer,    \* the process rewriting merged.jsonl, if any
    journal_seen,      \* what the last reader of merged.jsonl found
    vendor_call,       \* AKShareDataSource._api_call_with_retry in progress
    cli,               \* the last run of python start.py
    price_lookup       \* the last call of the price tool

config == <<prefer_duckdb, fallback_enabled>>
ledger == <<positions, position_jsonl, history>>
market == <<stock_daily_prices, stock_hourly_prices, merged_jsonl, merged_hourly_jsonl>>
runner == <<runs, runner_event, runtime_env>>
scheduler == <<scheduler_config, executions>>
ingestor == <<daily_prices_csv, vendor_world, ingest_event>>
journal == <<journal_writer, journal_seen>>
others == <<vendor_call, cli, price_lookup>>
batch == <<date_range, ingestor, journal, others>>
services == <<runner, scheduler, batch>>
data_access == <<config, ledger, market, last>>
vars == <<config, ledger, market, last, services>>

\* ------------------------------------------------------------------ helpers
MaxOf(S, default) == IF S = {} THEN default ELSE CHOOSE m \in S : \A x \in S : x <= m
Put(f, k, v) == [x \in DOMAIN f \cup {k} |-> IF x = k THEN v ELSE f[x]]
Truthy(p) == DOMAIN p # {}

\* '2025-10-30 10:30:00' stored in / compared with a DATE column
CastToDate(date) == date \div SlotBase

\* ------------------------------------------------- primary store (DuckDB)
AgentRows(tbl, signature) ==
    {tbl[i] : i \in {j \in 1..Len(tbl) : tbl[j].agent_name = signature}}

\* ORDER BY trade_date DESC, step_id DESC: the rows of S, greatest key first.
\* Rows that tie are rows of one step; their relative order is not observable.
RowBefore(r, o) ==
    \/ r.trade_date > o.trade_date
    \/ r.trade_date = o.trade_date /\ r.step_id > o.step_id
    \/ r.trade_date = o.trade_date /\ r.step_id = o.step_id /\ r.id <= o.id
RECURSIVE OrderRows(_)
OrderRows(S) ==
    IF S = {} THEN <<>>
    ELSE LET first == CHOOSE r \in S : \A o \in S : RowBefore(r, o)
         IN  <<first>> \o OrderRows(S \ {first})

\* The loop "for _, row in df.iterrows()" over the rows of one trade_date:
\* every row overwrites positions[ts_code] and cash, whatever its step_id.
RECURSIVE MergeRows(_, _, _, _)
MergeRows(rows, i, acc, latest_date) ==
    IF i > Len(rows) \/ rows[i].trade_date # latest_date THEN acc
    ELSE LET row == rows[i]
             withSym == IF row.ts_code # NULL /\ row.quantity > 0
                        THEN Put(acc, row.ts_code, row.quantity)
                        ELSE acc
         IN  MergeRows(rows, i + 1, Put(withSym, CASH, row.cash), latest_date)

query_latest_position(tbl, signature, max_date) ==
    LET today == OrderRows({r \in AgentRows(tbl, signature) :
                                r.trade_date = CastToDate(max_date)})
        before == OrderRows({r \in AgentRows(tbl, signature) :
                                r.trade_date < CastToDate(max_date)})
    IN  IF today # <<>>
        THEN [positions |-> MergeRows(today, 1, EmptyPos, today[1].trade_date),
              id |-> today[1].step_id]
        ELSE IF before = <<>>
        THEN [positions |-> EmptyPos, id |-> -1]
        ELSE [positions |-> MergeRows(before, 1, EmptyPos, before[1].trade_date),
              id |-> before[1].step_id]

query_today_init_position(tbl, today_date, signature) ==
    LET before == OrderRows({r \in AgentRows(tbl, signature) :
                                r.trade_date < CastToDate(today_date)})
    IN  IF before = <<>> THEN EmptyPos
        ELSE MergeRows(before, 1, EmptyPos, before[1].trade_date)

\* positions.items() without CASH, in the iteration order of the dict
SymbolOrder(S) == SelectSeq(SymbolSeq, LAMBDA sym : sym \in S)

NewRows(tbl, signature, date, action, pos) ==
    LET next_step_id == MaxOf({r.step_id : r \in AgentRows(tbl, signature)}, -1) + 1
        next_row_id == MaxOf({tbl[i].id : i \in 1..Len(tbl)}, 0) + 1
        cash == IF CASH \in DOMAIN pos THEN pos[CASH] ELSE 0
        syms == SymbolOrder(DOMAIN pos \ {CASH})
        row(i, sym, qty) ==
            [id |-> next_row_id + i - 1, agent_name |-> signature,
             trade_date |-> CastToDate(date), step_id |-> next_step_id,
             ts_code |-> sym, quantity |-> qty, cash |-> cash,
             action |-> action.action, action_amount |-> action.amount]
    IN  IF syms = <<>> THEN <<row(1, NULL, 0)>>
        ELSE [i \in 1..Len(syms) |-> row(i, syms[i], pos[syms[i]])]

\* Each db.execute is its own statement on an auto-commit connection: a failure
\* at the (done+1)-th INSERT leaves the first `done` rows in the table.
insert_position_record(tbl, signature, date, action, pos, done) ==
    tbl \o SubSeq(NewRows(tbl, signature, date, action, pos), 1, done)

\* ------------------------------------------------------ journal (JSONL)
\* "for line in f: ... if current_id > max_id_today": the first line of the
\* greatest id among the lines dated today_date.
RECURSIVE ScanToday(_, _, _, _, _)
ScanToday(lines, i, today_date, max_id_today, latest_positions_today) ==
    IF i > Len(lines)
    THEN [positions |-> latest_positions_today, id |-> max_id_today]
    ELSE IF lines[i].date = today_date /\ lines[i].id > max_id_today
    THEN ScanToday(lines, i + 1, today_date, lines[i].id, lines[i].positions)
    ELSE ScanToday(lines, i + 1, today_date, max_id_today, latest_positions_today)

\* all_records.sort(key=(date, id), reverse=True)[0]: a stable sort, so of the
\* records with the greatest key the first one in the file.
FirstSorted(lines, idx) ==
    CHOOSE i \in idx :
        \A j \in idx :
            \/ lines[i].date > lines[j].date
            \/ lines[i].date = lines[j].date /\ lines[i].id > lines[j].id
            \/ lines[i].date = lines[j].date /\ lines[i].id = lines[j].id /\ i <= j

get_latest_position_jsonl(jsonl, today_date, signature) ==
    LET lines == jsonl[signature]
        today == ScanToday(lines, 1, today_date, -1, EmptyPos)
        all_records == {i \in 1..Len(lines) :
                           lines[i].date < today_date /\ Truthy(lines[i].positions)}
    IN  IF today.id >= 0 /\ Truthy(today.positions) THEN today
        ELSE IF all_records # {}
        THEN LET top == lines[FirstSorted(lines, all_records)]
             IN  [positions |-> top.positions, id |-> top.id]
        ELSE [positions |-> EmptyPos, id |-> -1]

get_today_init_position_jsonl(jsonl, today_date, signature) ==
    LET lines == jsonl[signature]
        all_records == {i \in 1..Len(lines) : lines[i].date < today_date}
    IN  IF all_records = {} THEN EmptyPos
        ELSE lines[FirstSorted(lines, all_records)].positions

add_position_record_jsonl(jsonl, date, signature, action, pos) ==
    LET next_id == get_latest_position_jsonl(jsonl, date, signature).id + 1
        save_item == [date |-> date, id |-> next_id,
                      this_action |-> action, positions |-> pos]
    IN  [jsonl EXCEPT ![signature] = Append(@, save_item)]

\* ------------------------------------------- facade (PositionDataAccess)
\* A timestamp string a read hands back: the timestamp `base`, or the string
\* (base - minus_hours hours).strftime(...) followed by `suffix`.
Stamp(t) == [base |-> t, minus_hours |-> 0, suffix |-> ""]
HourBefore(t, suffix) == [base |-> t, minus_hours |-> 1, suffix |-> suffix]
NoStamp == [base |-> 0, minus_hours |-> 0, suffix |-> "None"]

\* What a facade call hands back: raised, or a value; jsonl_read tells whether the
\* JSONL implementation was called.
NoAnswer ==
    [raised |-> FALSE, jsonl_read |-> FALSE, positions |-> EmptyPos, id |-> -1,
     prices |-> EmptyPos, days |-> <<>>, yesterday |-> NoStamp]
Raise == [raised |-> TRUE] @@ NoAnswer
Answer(raised, pos, id, jsonl_read) ==
    [raised |-> raised, positions |-> pos, id |-> id, jsonl_read |-> jsonl_read]
        @@ NoAnswer

get_latest_position_fallback(jsonl, today_date, signature) ==
    LET r == get_latest_position_jsonl(jsonl, today_date, signature)
    IN  Answer(FALSE, r.positions, r.id, TRUE)

\* returns whatever the primary answers, empty or not
get_latest_position_primary_only(tbl, jsonl, today_date, signature, db_error) ==
    IF prefer_duckdb /\ db_error /\ ~fallback_enabled
    THEN Raise
    ELSE IF prefer_duckdb /\ ~db_error
    THEN LET r == query_latest_position(tbl, signature, today_date)
         IN  Answer(FALSE, r.positions, r.id, FALSE)
    ELSE get_latest_position_fallback(jsonl, today_date, signature)

\* db_error: the DuckDB connection or query raises
get_latest_position(tbl, jsonl, today_date, signature, db_error) ==
    IF prefer_duckdb /\ db_error /\ ~fallback_enabled
    THEN Raise
    ELSE IF prefer_duckdb /\ ~db_error
    THEN LET r == query_latest_position(tbl, signature, today_date)
         IN  IF Truthy(r.positions) \/ r.id >= 0
             THEN Answer(FALSE, r.positions, r.id, FALSE)
             ELSE get_latest_position_fallback(jsonl, today_date, signature)
    ELSE get_latest_position_fallback(jsonl, today_date, signature)

get_today_init_position_fallback(jsonl, today_date, signature) ==
    Answer(FALSE, get_today_init_position_jsonl(jsonl, today_date, signature), -1, TRUE)

\* falls back to the journal whatever DUCKDB_FALLBACK_ENABLED says
get_today_init_position_always_fallback(tbl, jsonl, today_date, signature, db_error) ==
    IF prefer_duckdb /\ ~db_error
    THEN LET pos == query_today_init_position(tbl, today_date, signature)
         IN  IF Truthy(pos)
             THEN Answer(FALSE, pos, -1, FALSE)
             ELSE get_today_init_position_fallback(jsonl, today_date, signature)
    ELSE get_today_init_position_fallback(jsonl, today_date, signature)

get_today_init_position(tbl, jsonl, today_date, signature, db_error) ==
    IF prefer_duckdb /\ db_error /\ ~fallback_enabled
    THEN Raise
    ELSE IF prefer_duckdb /\ ~db_error
    THEN LET pos == query_today_init_position(tbl, today_date, signature)
         IN  IF Truthy(pos)
             THEN Answer(FALSE, pos, -1, FALSE)
             ELSE get_today_init_position_fallback(jsonl, today_date, signature)
    ELSE get_today_init_position_fallback(jsonl, today_date, signature)

\* number of INSERTs a full write of pos makes
NumRows(pos) == IF DOMAIN pos \ {CASH} = {} THEN 1 ELSE Cardinality(DOMAIN pos \ {CASH})

\* done: INSERTs executed before DuckDB raises (NumRows(pos): it does not raise)
\* jsonl_error: the journal write raises
CommitRaises(pos, done, jsonl_error) ==
    LET errors == (IF prefer_duckdb /\ done < NumRows(pos) THEN 1 ELSE 0)
                  + (IF jsonl_error THEN 1 ELSE 0)
    IN  errors = 2

add_position_record(tbl, jsonl, date, signature, action, pos, done, jsonl_error) ==
    [tbl |-> IF prefer_duckdb
             THEN insert_position_record(tbl, signature, date, action, pos, done)
             ELSE tbl,
     jsonl |-> IF jsonl_error THEN jsonl
               ELSE add_position_record_jsonl(jsonl, date, signature, action, pos),
     raised |-> CommitRaises(pos, done, jsonl_error)]

add_no_trade_record(tbl, jsonl, today_date, signature, db_error, done, jsonl_error) ==
    LET current == get_latest_position(tbl, jsonl, today_date, signature, db_error)
    IN  IF current.raised
        THEN [tbl |-> tbl, jsonl |-> jsonl, raised |-> TRUE,
              positions |-> current.positions]
        ELSE [positions |-> current.positions] @@
             add_position_record(tbl, jsonl, today_date, signature, NoTradeAction,
                                 current.positions, done, jsonl_error)

\* ---------------------------------------------------------- price stores
\* a missing open price
None == 0
\* f"{symbol}_price"
PriceKey(symbol) == symbol \o "_price"
\* " " in today_date
IsHourly(date) == date % SlotBase # 0
\* trade_date.strftime("%Y-%m-%d")
DateToStr(trade_date) == trade_date * SlotBase

RECURSIVE SortedSeq(_)
SortedSeq(S) ==
    IF S = {} THEN <<>>
    ELSE LET least == CHOOSE x \in S : \A y \in S : x <= y
         IN  <<least>> \o SortedSeq(S \ {least})

\* {key: open} for the bars found, None for the symbols in `missing`
PriceMap(found, missing) ==
    [key \in {PriceKey(b.ts_code) : b \in found} \cup {PriceKey(sym) : sym \in missing} |->
        IF \E b \in found : PriceKey(b.ts_code) = key
        THEN (CHOOSE b \in found : PriceKey(b.ts_code) = key).open
        ELSE None]

query_daily_open_prices(tbl, symbols, date) ==
    IF symbols = {} THEN EmptyPos
    ELSE LET df == {b \in tbl : b.ts_code \in symbols /\ b.trade_date = CastToDate(date)}
         IN  PriceMap(df, symbols \ {b.ts_code : b \in df})

query_hourly_open_prices(tbl, symbols, datetime_str) ==
    IF symbols = {} THEN EmptyPos
    ELSE LET df == {b \in tbl : b.ts_code \in symbols /\ b.trade_time = datetime_str}
         IN  PriceMap(df, symbols \ {b.ts_code : b \in df})

query_all_trading_days(tbl) == SortedSeq({DateToStr(b.trade_date) : b \in tbl})

resolve_merged_file_path_for_date(daily_file, hourly_file, today_date) ==
    IF IsHourly(today_date) THEN hourly_file ELSE daily_file

\* only the symbols that have a bar at today_date get an entry
get_open_prices_jsonl(merged_file, today_date, symbols) ==
    IF ~merged_file.exists THEN EmptyPos
    ELSE PriceMap({b \in merged_file.bars :
                      b.ts_code \in symbols /\ b.time = today_date}, {})

get_all_trading_days_jsonl(merged_file) ==
    IF ~merged_file.exists THEN <<>>
    ELSE SortedSeq({b.time : b \in merged_file.bars})

\* --------------------------------------------- facade (PriceDataAccess)
PriceAnswer(prices, jsonl_read) ==
    [prices |-> prices, jsonl_read |-> jsonl_read] @@ NoAnswer

get_open_prices_fallback(daily_file, hourly_file, today_date, symbols) ==
    PriceAnswer(get_open_prices_jsonl(
                    resolve_merged_file_path_for_date(daily_file, hourly_file, today_date),
                    today_date, symbols), TRUE)

get_open_prices(daily_tbl, hourly_tbl, daily_file, hourly_file, today_date, symbols, db_error) ==
    IF prefer_duckdb /\ db_error /\ ~fallback_enabled
    THEN Raise
    ELSE IF prefer_duckdb /\ ~db_error
    THEN LET result == IF IsHourly(today_date)
                       THEN query_hourly_open_prices(hourly_tbl, symbols, today_date)
                       ELSE query_daily_open_prices(daily_tbl, symbols, today_date)
         IN  IF Truthy(result)
             THEN PriceAnswer(result, FALSE)
             ELSE get_open_prices_fallback(daily_file, hourly_file, today_date, symbols)
    ELSE get_open_prices_fallback(daily_file, hourly_file, today_date, symbols)

DaysAnswer(days, jsonl_read) ==
    [days |-> days, jsonl_read |-> jsonl_read] @@ NoAnswer

get_all_trading_days(daily_tbl, daily_file, db_error) ==
    IF prefer_duckdb /\ db_error /\ ~fallback_enabled
    THEN Raise
    ELSE IF prefer_duckdb /\ ~db_error
    THEN LET result == query_all_trading_days(daily_tbl)
         IN  IF result # <<>>
             THEN DaysAnswer(result, FALSE)
             ELSE DaysAnswer(get_all_trading_days_jsonl(daily_file), TRUE)
    ELSE DaysAnswer(get_all_trading_days_jsonl(daily_file), TRUE)

\* ------------------------------------------------- previous trading day
\* datetime.strptime(today_date, "%Y-%m-%d")
ParseDate(today_date) == today_date \div SlotBase
\* datetime.weekday(): 0 is Monday; day 1 of the model is a Monday
Weekday(day) == (day - 1) % 7
\* "while yesterday_dt.weekday() >= 5: yesterday_dt -= timedelta(days=1)"
RECURSIVE SkipWeekend(_)
SkipWeekend(day) == IF Weekday(day) >= 5 THEN SkipWeekend(day - 1) ELSE day
\* the calendar day before today_date that is no Saturday or Sunday
CalendarYesterday(today_date) ==
    Stamp(DateToStr(SkipWeekend(ParseDate(today_date) - 1)))

\* SELECT MAX(...) WHERE ... < ?: the set holding the answer, {} for None
query_previous_trading_day(daily_tbl, hourly_tbl, today_date) ==
    IF IsHourly(today_date)
    THEN LET prev == {b.trade_time : b \in {x \in hourly_tbl : x.trade_time < today_date}}
         IN  IF prev = {} THEN {} ELSE {Stamp(MaxOf(prev, 0))}
    ELSE LET prev == {b.trade_date :
                         b \in {x \in daily_tbl : x.trade_date < CastToDate(today_date)}}
         IN  IF prev = {} THEN {} ELSE {Stamp(DateToStr(MaxOf(prev, 0)))}

get_yesterday_date_jsonl(daily_file, hourly_file, today_date) ==
    LET date_only == ~IsHourly(today_date)
        merged_file == resolve_merged_file_path_for_date(daily_file, hourly_file, today_date)
        arithmetic(suffix) == IF date_only THEN CalendarYesterday(today_date)
                              ELSE HourBefore(today_date, suffix)
        all_timestamps == {b.time : b \in merged_file.bars}
        \* strptime(ts_str, "%Y-%m-%d %H:%M:%S") raises on a key "YYYY-MM-DD":
        \* the key is skipped
        earlier == {ts \in all_timestamps : IsHourly(ts) /\ ts < today_date}
    IN  IF ~merged_file.exists THEN arithmetic("")
        ELSE IF all_timestamps = {} THEN arithmetic("")
        ELSE IF earlier = {} THEN arithmetic("S")
        ELSE IF date_only THEN Stamp(DateToStr(ParseDate(MaxOf(earlier, 0))))
        ELSE Stamp(MaxOf(earlier, 0))

YesterdayAnswer(yesterday, jsonl_read) ==
    [yesterday |-> yesterday, jsonl_read |-> jsonl_read] @@ NoAnswer

get_yesterday_date(daily_tbl, hourly_tbl, daily_file, hourly_file, today_date, db_error) ==
    IF prefer_duckdb /\ db_error /\ ~fallback_enabled
    THEN Raise
    ELSE IF prefer_duckdb /\ ~db_error
    THEN LET result == query_previous_trading_day(daily_tbl, hourly_tbl, today_date)
         IN  IF result # {}
             THEN YesterdayAnswer(CHOOSE r \in result : TRUE, FALSE)
             ELSE YesterdayAnswer(get_yesterday_date_jsonl(daily_file, hourly_file,
                                                           today_date), TRUE)
    ELSE YesterdayAnswer(get_yesterday_date_jsonl(daily_file, hourly_file, today_date),
                         TRUE)

\* ------------------------------------- run registry (AgentRunnerService)
\* AgentStatus
PENDING == "pending"
RUNNING == "running"
COMPLETED == "completed"
FAILED == "failed"
CANCELLED == "cancelled"

NoError == "None"
\* models of the configuration: name and whether "basemodel" is given
ModelConfigs == [name : {"gpt", "qwen"}, basemodel : BOOLEAN]

\* the runtime settings file: write_config_value sets a key, creating the file
\* when it is not there; get_config_value answers the default for a key or a
\* file that is not there
Unset == "unset"
NoRuntimeEnv == [exists |-> FALSE, SIGNATURE |-> Unset, LOG_PATH |-> Unset]
write_config_value(env, key, value) ==
    [(IF env.exists THEN env ELSE NoRuntimeEnv) EXCEPT ![key] = value, !.exists = TRUE]
get_config_value(env, key, default) ==
    IF env.exists /\ env[key] # Unset THEN env[key] ELSE default

\* derive_log_path, for the daily frequency the runs are started with
derive_log_path == "./data/agent_data_astock"
\* _get_position_file: the ledger path is resolved with the LOG_PATH of the
\* runtime settings at the time of the call
NoPath == <<>>
get_position_file(env, signature) ==
    <<get_config_value(env, "LOG_PATH", "./data/agent_data"), signature>>

\* AgentRun(...) as start_agent builds it; at: where the task _run_agent
\* stands ("created": not started yet); must_cancel: task.cancel() was called
AgentRun(model_config) ==
    [model_name |-> model_config.name, basemodel |-> model_config.basemodel,
     status |-> PENDING, started_at |-> FALSE, completed_at |-> FALSE,
     error_message |-> NoError, at |-> "created", must_cancel |-> FALSE,
     position_file |-> NoPath]

start_agent(all_runs, model_config) == Append(all_runs, AgentRun(model_config))

RECURSIVE start_all_enabled_agents(_, _)
start_all_enabled_agents(all_runs, enabled_models) ==
    IF enabled_models = <<>> THEN all_runs
    ELSE start_all_enabled_agents(start_agent(all_runs, Head(enabled_models)),
                                  Tail(enabled_models))

\* marks the run failed without recording the error
run_agent_failed_silent(run, e) ==
    [run EXCEPT !.status = FAILED, !.completed_at = TRUE, !.at = "done"]

\* "except Exception as e"
run_agent_failed(run, e) ==
    [run EXCEPT !.status = FAILED, !.error_message = e, !.completed_at = TRUE,
                !.at = "done"]
\* marks the run cancelled without stamping its end
run_agent_cancelled_unstamped(run) ==
    [run EXCEPT !.status = CANCELLED, !.at = "done"]

\* "except asyncio.CancelledError"
run_agent_cancelled(run) ==
    [run EXCEPT !.status = CANCELLED, !.completed_at = TRUE, !.at = "done"]
run_agent_completed(run) ==
    [run EXCEPT !.status = COMPLETED, !.completed_at = TRUE, !.at = "done"]

\* _run_agent from its first line to its first await
run_agent_begin(run, e) ==
    LET started == [run EXCEPT !.status = RUNNING, !.started_at = TRUE]
    IN  IF ~run.basemodel THEN run_agent_failed(started, "missing basemodel")
        ELSE IF e # NoError THEN run_agent_failed(started, e)
        ELSE [started EXCEPT !.at = "initialize"]

\* the runtime settings after _run_agent ran to its first await: nothing is
\* written when it raised before; fresh: the run has no position file yet
run_agent_begin_env(env, run, e, fresh) ==
    IF ~run.basemodel \/ e # NoError THEN env
    ELSE LET written == write_config_value(write_config_value(env, "SIGNATURE",
                                                              run.model_name),
                                           "LOG_PATH", derive_log_path)
         IN  IF fresh THEN NoRuntimeEnv ELSE written

\* the session of run_date_range commits its record to the run's ledger
run_date_range_commit(run, env) ==
    [run EXCEPT !.position_file = get_position_file(env, run.model_name)]

\* _run_agent resumed at "await agent.initialize()" or at
\* "await agent.run_date_range(...)": the awaited call returned (e = NoError)
\* or raised e; a cancelled task is resumed with CancelledError
run_agent_resume(run, e) ==
    IF run.must_cancel THEN run_agent_cancelled(run)
    ELSE IF e # NoError THEN run_agent_failed(run, e)
    ELSE IF run.at = "initialize" THEN [run EXCEPT !.at = "run_date_range"]
    ELSE run_agent_completed(run)

cancel_run(all_runs, run_id) ==
    IF run_id \notin DOMAIN all_runs
    THEN [runs |-> all_runs, result |-> FALSE]
    ELSE IF all_runs[run_id].status # RUNNING
    THEN [runs |-> all_runs, result |-> FALSE]
    ELSE IF all_runs[run_id].at # "done"
    THEN [runs |-> [all_runs EXCEPT ![run_id].must_cancel = TRUE], result |-> TRUE]
    ELSE [runs |-> all_runs, result |-> FALSE]

RunnerEvent(op, run_id, result, before) ==
    [op |-> op, run_id |-> run_id, result |-> result, before |-> before]

InitRunner ==
    /\ runs = <<>>
    /\ runner_event = RunnerEvent("none", 0, FALSE, <<>>)
    /\ runtime_env = NoRuntimeEnv

\* ------------------------------ live scheduler (SchedulerService and
\* LiveTradingScheduler); a time of day is <<hour, minute>>, and the trading
\* timestamp of a daily execution, a bare date, is <<>>
DAILY == "daily"
HOURLY == "hourly"
SERVICE == "SchedulerService"
STANDALONE == "LiveTradingScheduler"
BACKTEST == "backtest"
LIVE == "live"

ASTOCK_DAILY_TIME == <<9, 35>>
ASTOCK_HOURLY_TIMES == {<<10, 35>>, <<11, 35>>, <<14, 5>>, <<15, 5>>}

\* SignatureStrategy._get_frequency_suffix
get_frequency_suffix(frequency) == IF frequency = HOURLY THEN "-astock-hour" ELSE ""

\* generate_signature: BacktestSignatureStrategy / LiveSignatureStrategy
generate_signature(model_name, frequency, mode) ==
    IF mode = LIVE THEN model_name \o "-live" \o get_frequency_suffix(frequency)
    ELSE model_name \o get_frequency_suffix(frequency)

\* "Align to trading hours for hourly"
aligned_time(hour) ==
    IF hour = 10 THEN <<10, 30>>
    ELSE IF hour = 11 THEN <<11, 30>>
    ELSE IF hour = 14 THEN <<14, 0>>
    ELSE IF hour = 15 THEN <<15, 0>>
    ELSE <<hour, 0>>

\* RealtimeDataFetcher.get_time_key for the cn market: the time of day of the
\* key under which the refresh stores the bars it fetched at now
get_time_key(frequency, now) ==
    IF frequency = DAILY THEN <<>>
    ELSE IF 9 <= now[1] /\ now[1] < 11 THEN <<10, 30>>
    ELSE IF 11 <= now[1] /\ now[1] < 13 THEN <<11, 30>>
    ELSE IF 13 <= now[1] /\ now[1] < 14 THEN <<14, 0>>
    ELSE IF 14 <= now[1] /\ now[1] < 16 THEN <<15, 0>>
    ELSE <<now[1], 0>>

\* "Step 2: Get trading date/time"
trading_date(frequency, now) == IF frequency = DAILY THEN <<>> ELSE aligned_time(now[1])

\* the entries of "models" with enabled set, in the order of the configuration
enabled_models_of(sched) == SelectSeq(sched.models, LAMBDA m : m.enabled)

\* the signature under which the session of model_config writes its ledger
session_signature(sched, model_config) ==
    IF sched.kind = SERVICE
    THEN generate_signature(model_config.name, sched.frequency, LIVE)
    ELSE model_config.signature

\* the check at the head of _execute_single_model / _run_single_model
model_config_valid(sched, model_config) ==
    IF sched.kind = SERVICE THEN model_config.basemodel
    ELSE model_config.basemodel /\ model_config.signature # ""

NoSchedulerConfig == [kind |-> "none", frequency |-> DAILY, models |-> <<>>]

\* one execution of _run_live_trading_session / _run_trading_session; at: the
\* await where the coroutine stands; events, in order: the end of the refresh,
\* the calls of _execute_single_model / _run_single_model ("invoke") and the
\* calls of agent.run_trading_session ("session")
Execution(fired_by, now) ==
    [fired_by |-> fired_by, started_at |-> now, at |-> "update_prices",
     today_date |-> <<>>, next |-> 0, models_executed |-> <<>>, errors |-> <<>>,
     completed_at |-> FALSE, events |-> <<>>, reported |-> "none"]

RefreshEvent(outcome, time_key) ==
    [kind |-> "refresh", outcome |-> outcome, time_key |-> time_key]
InvokeEvent(model_name, today_date) ==
    [kind |-> "invoke", model_name |-> model_name, today_date |-> today_date]
SessionEvent(model_name, signature, today_date) ==
    [kind |-> "session", model_name |-> model_name, signature |-> signature,
     today_date |-> today_date]

execution_completed(x) == [x EXCEPT !.at = "done", !.completed_at = TRUE]

\* the loop "for model_config in enabled_models" from its k-th round up to
\* the next await: each round calls _execute_single_model / _run_single_model,
\* which raises at once on a rejected configuration; SchedulerService records
\* the error, LiveTradingScheduler prints it
RECURSIVE execute_models_from(_, _, _)
execute_models_from(sched, x, k) ==
    IF k > Len(enabled_models_of(sched)) THEN execution_completed(x)
    ELSE LET model_config == enabled_models_of(sched)[k]
             invoked == [x EXCEPT !.next = k,
                                  !.events = Append(@, InvokeEvent(model_config.name,
                                                                   x.today_date))]
         IN  IF ~model_config_valid(sched, model_config)
             THEN execute_models_from(sched,
                      IF sched.kind = SERVICE
                      THEN [invoked EXCEPT !.errors = Append(@, model_config.name)]
                      ELSE invoked,
                      k + 1)
             ELSE [invoked EXCEPT !.at = "initialize"]

\* the refresh raised and nothing caught it before the handler of the whole
\* execution
execution_failed(sched, x) ==
    IF sched.kind = SERVICE
    THEN execution_completed([x EXCEPT !.errors = Append(@, "execution")])
    ELSE [x EXCEPT !.at = "done"]

\* the execution resumed at "await update_realtime_prices(...)": the refresh
\* returned True ("ok"), returned False ("failed") or raised; _update_prices
\* of SchedulerService turns an exception into False
refresh_done(sched, x, outcome) ==
    LET seen == IF sched.kind = SERVICE /\ outcome = "raised" THEN "failed" ELSE outcome
        refreshed == [x EXCEPT !.events =
                         Append(@, RefreshEvent(outcome,
                                                get_time_key(sched.frequency, x.started_at)))]
    IN  IF seen = "raised" THEN execution_failed(sched, refreshed)
        ELSE execute_models_from(sched,
                 [refreshed EXCEPT !.today_date = trading_date(sched.frequency, x.started_at)],
                 1)

\* the session of the current model raised
model_failed(sched, x) ==
    execute_models_from(sched,
        IF sched.kind = SERVICE
        THEN [x EXCEPT !.errors = Append(@, enabled_models_of(sched)[x.next].name)]
        ELSE x,
        x.next + 1)

\* the execution resumed at "await agent.initialize()"
initialize_done(sched, x, raised) ==
    IF raised THEN model_failed(sched, x)
    ELSE [x EXCEPT !.at = "run_trading_session",
                   !.events = Append(@, SessionEvent(enabled_models_of(sched)[x.next].name,
                                          session_signature(sched, enabled_models_of(sched)[x.next]),
                                          x.today_date))]

\* the execution resumed at "await agent.run_trading_session(today_date)"
session_done(sched, x, raised) ==
    IF raised THEN model_failed(sched, x)
    ELSE execute_models_from(sched,
             IF sched.kind = SERVICE
             THEN [x EXCEPT !.models_executed = Append(@, enabled_models_of(sched)[x.next].name)]
             ELSE x,
             x.next + 1)

\* trigger_now: what the caller is told once _run_live_trading_session has
\* returned; the session catches every exception it meets, so the handler
\* "except Exception" of trigger_now is never entered
trigger_now(sched) ==
    IF sched.kind = "none" THEN "failure" ELSE "success"

\* the step that ends a manually triggered execution of SchedulerService
\* also ends trigger_now
trigger_now_returns(sched, x) ==
    IF sched.kind = SERVICE /\ x.fired_by = "manual" /\ x.at = "done"
    THEN [x EXCEPT !.reported = trigger_now(sched)]
    ELSE x

InitScheduler ==
    /\ scheduler_config = NoSchedulerConfig
    /\ executions = <<>>

\* A-share hourly trading times, as <<hour, minute>>
TRADING_HOURS == <<<<10, 30>>, <<11, 30>>, <<14, 0>>, <<15, 0>>>>

\* ------------------------------------------- backtest date range (main.py)
\* a date is [day, time] with time <<>>, a timestamp has time <<hour, minute>>
DEFAULT_START_DAYS_AGO == 30

Date(day) == [day |-> day, time |-> <<>>]
Timestamp(day, time) == [day |-> day, time |-> time]
\* the order of the strings "YYYY-MM-DD" and "YYYY-MM-DD HH:MM:SS"
TsKey(ts) == ts.day * 1440 + (IF ts.time = <<>> THEN 0 ELSE ts.time[1] * 60 + ts.time[2])
LatestOf(S) == CHOOSE ts \in S : \A other \in S : TsKey(other) <= TsKey(ts)

\* "while next_day.weekday() >= 5: next_day += timedelta(days=1)"
RECURSIVE NextWeekday(_)
NextWeekday(day) == IF Weekday(day) >= 5 THEN NextWeekday(day + 1) ELSE day

get_next_hourly_timestamp(timestamp) ==
    LET later == {i \in DOMAIN TRADING_HOURS :
                     TsKey(Timestamp(0, timestamp.time)) < TsKey(Timestamp(0, TRADING_HOURS[i]))}
    IN  IF later # {}
        THEN Timestamp(timestamp.day, TRADING_HOURS[CHOOSE i \in later : \A j \in later : i <= j])
        ELSE Timestamp(NextWeekday(timestamp.day + 1), TRADING_HOURS[1])

\* the keys of the price file of the frequency: the set holding the latest,
\* {} for None
get_latest_trading_day(calendar, frequency) ==
    IF calendar = {} THEN {}
    ELSE IF frequency = HOURLY
    THEN {LatestOf({Timestamp(d, TRADING_HOURS[i]) : d \in calendar, i \in DOMAIN TRADING_HOURS})}
    ELSE {LatestOf({Date(d) : d \in calendar})}

\* the "date" fields of position.jsonl: the set holding the latest, {} for None
get_latest_position_date(position_dates, frequency) ==
    IF position_dates = {} THEN {}
    ELSE IF frequency = HOURLY THEN {LatestOf(position_dates)}
    ELSE {LatestOf({Date(ts.day) : ts \in position_dates})}

calculate_date_range(position_dates, frequency, calendar, today) ==
    LET latest_trading_day == get_latest_trading_day(calendar, frequency)
        end_date == IF latest_trading_day # {} THEN LatestOf(latest_trading_day)
                    ELSE IF frequency = HOURLY THEN Timestamp(today, <<15, 0>>)
                    ELSE Date(today)
        latest_position == get_latest_position_date(position_dates, frequency)
    IN  [start_date |->
            IF latest_position # {}
            THEN IF frequency = HOURLY
                 THEN get_next_hourly_timestamp(LatestOf(latest_position))
                 ELSE Date(LatestOf(latest_position).day + 1)
            ELSE IF frequency = HOURLY
            THEN Timestamp(end_date.day - DEFAULT_START_DAYS_AGO, <<10, 30>>)
            ELSE Date(end_date.day - DEFAULT_START_DAYS_AGO),
         end_date |-> end_date]

NoDateRange ==
    [called |-> FALSE, frequency |-> DAILY, position_dates |-> {}, calendar |-> {},
     start_date |-> Date(0), end_date |-> Date(0)]

InitBatch == date_range = NoDateRange

\* --------------------------- daily ingestor (get_daily_price_akshare.py)
\* a day is the string YYYYMMDD; daily_prices_sse_50.csv is [exists, rows],
\* rows in file order, each [ts_code, trade_date, close]
NoCsv == [exists |-> FALSE, rows |-> <<>>]
CsvKeys(rows) == {<<rows[i].ts_code, rows[i].trade_date>> : i \in DOMAIN rows}
CodeIndex(ts_code) == CHOOSE i \in DOMAIN SymbolSeq : SymbolSeq[i] = ts_code

\* the set holding df["trade_date"].max(), {} for None
get_latest_date_from_csv(csv) ==
    IF ~csv.exists THEN {}
    ELSE IF csv.rows = <<>> THEN {}
    ELSE {MaxOf({csv.rows[i].trade_date : i \in DOMAIN csv.rows}, 0)}

\* SELECT MAX(trade_date) FROM stock_daily_prices WHERE market = 'cn'
get_latest_date_from_duckdb(daily_tbl) ==
    IF daily_tbl = {} THEN {} ELSE {MaxOf({b.trade_date : b \in daily_tbl}, 0)}

calculate_start_date(existing_latest, default_start, today) ==
    IF existing_latest = {} THEN [start_date |-> default_start, need_update |-> TRUE]
    ELSE LET latest == CHOOSE d \in existing_latest : TRUE
         IN  IF latest >= today THEN [start_date |-> latest, need_update |-> FALSE]
             ELSE [start_date |-> latest + 1, need_update |-> TRUE]

\* DataValidator.get_all_held_stocks("daily"): the stocks of positive amount
\* in the last line of each position.jsonl under data/agent_data_astock
get_all_held_stocks(jsonl) ==
    LET lines == jsonl[DailySig]
    IN  IF lines = <<>> THEN {}
        ELSE {stock \in DOMAIN lines[Len(lines)].positions \ {CASH} :
                 lines[Len(lines)].positions[stock] > 0}

\* sort_values(["ts_code", "trade_date"]) of rows of distinct keys
RECURSIVE sort_values(_)
sort_values(row_set) ==
    IF row_set = {} THEN <<>>
    ELSE LET least == CHOOSE r \in row_set :
                          \A o \in row_set :
                              \/ CodeIndex(r.ts_code) < CodeIndex(o.ts_code)
                              \/ r.ts_code = o.ts_code /\ r.trade_date <= o.trade_date
         IN  <<least>> \o sort_values(row_set \ {least})

\* source.get_stock_daily(code_list, start_date, end_date): the bars the vendor
\* has published in the window, less the stocks whose request fails
get_stock_daily(world, code_list, start_date, end_date) ==
    sort_values({[ts_code |-> s, trade_date |-> d, close |-> 1] :
                    s \in code_list \ world.failing,
                    d \in {p \in world.published : start_date <= p /\ p <= end_date}})

\* drop_duplicates(subset=["ts_code", "trade_date"], keep="last")
drop_duplicates(rows) ==
    SelectSeq([i \in DOMAIN rows |-> [row |-> rows[i],
                  last |-> \A j \in DOMAIN rows :
                              (j > i) => <<rows[j].ts_code, rows[j].trade_date>>
                                            # <<rows[i].ts_code, rows[i].trade_date>>]],
              LAMBDA e : e.last)

Rows(entries) == [i \in DOMAIN entries |-> entries[i].row]
RowSet(rows) == {rows[i] : i \in DOMAIN rows}

\* fetches from daily_start_date on every run and appends what it gets
get_daily_price_a_stock_append_all(csv, daily_tbl, jsonl, world, daily_start_date) ==
    LET df_new == get_stock_daily(world, world.constituents \cup get_all_held_stocks(jsonl),
                                  daily_start_date, world.today)
    IN  IF world.constituents = {} \/ df_new = <<>> THEN csv
        ELSE [exists |-> TRUE, rows |-> csv.rows \o df_new]

\* get_daily_price_a_stock(force_update=False): the file it leaves
get_daily_price_a_stock(csv, daily_tbl, jsonl, world, daily_start_date) ==
    LET from_csv == get_latest_date_from_csv(csv)
        existing_latest == IF from_csv = {} THEN get_latest_date_from_duckdb(daily_tbl)
                           ELSE from_csv
        start == calculate_start_date(existing_latest, daily_start_date, world.today)
        code_list == world.constituents
        extra_held == get_all_held_stocks(jsonl) \ code_list
        df_new == get_stock_daily(world, code_list \cup extra_held, start.start_date,
                                  world.today)
    IN  IF ~start.need_update THEN csv
        ELSE IF code_list = {} THEN csv
        ELSE IF df_new = <<>> THEN csv
        ELSE IF csv.exists
        THEN [exists |-> TRUE,
              rows |-> sort_values(RowSet(Rows(drop_duplicates(csv.rows \o df_new))))]
        ELSE [exists |-> TRUE, rows |-> df_new]

\* the exchange and the vendor: the day of datetime.now(), the days whose bars
\* are published, the constituents of the index, the stocks whose request fails
World(today, published, constituents, failing) ==
    [today |-> today, published |-> published, constituents |-> constituents,
     failing |-> failing]

IngestEvent(op, repeat, before) == [op |-> op, repeat |-> repeat, before |-> before]

InitIngestor ==
    /\ daily_prices_csv = NoCsv
    /\ vendor_world = World(1, {}, Symbols, {})
    /\ ingest_event = IngestEvent("none", FALSE, NoCsv)

\* ------------------ market journal writers (merge_jsonl.py, fetch_realtime.py)
\* a bar of merged.jsonl; full: the bar carries high, low, sell price and
\* volume next to the buy price
MergedBar(ts_code, time, full) ==
    [ts_code |-> ts_code, time |-> time, open |-> 1, full |-> full]

\* the lines of the file, one per stock, in the order they are written; a line
\* is the set of the bars of its time series
RECURSIVE LinesOf(_, _)
LinesOf(bars, codes) ==
    IF codes = <<>> THEN <<>>
    ELSE LET line == {b \in bars : b.ts_code = Head(codes)}
         IN  (IF line = {} THEN <<>> ELSE <<line>>) \o LinesOf(bars, Tail(codes))

BarsOf(lines) == UNION {lines[i] : i \in DOMAIN lines}

\* convert_a_stock_to_jsonl: the lines it writes for the rows of the CSV; the
\* latest bar of each stock keeps its buy price only
convert_a_stock_to_jsonl(rows) ==
    LinesOf({MergedBar(r.ts_code, DateToStr(r.trade_date),
                       r.trade_date # MaxOf({o.trade_date : o \in {x \in RowSet(rows) :
                                                 x.ts_code = r.ts_code}}, 0)) :
                r \in RowSet(rows)},
            SymbolSeq)

\* append_prices_to_merged: updated_lines, every line of the file with the
\* bar of time_key set for the stocks that have a price
append_prices_to_merged(file, prices, time_key) ==
    LinesOf({b \in file.bars : ~(b.ts_code \in prices /\ b.time = time_key)}
                \cup {MergedBar(s, time_key, TRUE) :
                         s \in prices \cap {b.ts_code : b \in file.bars}},
            SymbolSeq)

\* the process that rewrites the file: what the file held when it started,
\* what it is writing, the lines not yet on disk
IdleWriter(file, rewrites) ==
    [at |-> "idle", old |-> file, new |-> file, queue |-> <<>>, rewrites |-> rewrites]
\* open(path, "w"): the file exists and is empty from here on
open_for_writing(file, lines, rewrites) ==
    [at |-> "writing", old |-> file, new |-> [exists |-> TRUE, bars |-> BarsOf(lines)],
     queue |-> lines, rewrites |-> rewrites + 1]

NoFile == [exists |-> FALSE, bars |-> {}]

NotSeen == [read |-> FALSE, file |-> NoFile, old |-> NoFile, new |-> NoFile]

InitJournal ==
    /\ journal_writer = IdleWriter(NoFile, 0)
    /\ journal_seen = NotSeen

\* --------------------------------- vendor calls with retry (akshare_source.py)
\* delays are in hundredths of a second
retry_delay_default == 500
max_retry_delay_default == 6000

Min(a, b) == IF a <= b THEN a ELSE b
RECURSIVE Pow2(_)
Pow2(n) == IF n = 0 THEN 1 ELSE 2 * Pow2(n - 1)

\* random.random() * 2 - 1, in hundredths: the jitter is drawn from [-1, 1)
JitterDraws == {-100, -50, 0, 50, 99}

\* _calculate_backoff_delay, jitter_draw standing for the random draw
calculate_backoff_delay(cfg, attempt, jitter_draw) ==
    LET base_delay == cfg.retry_delay * Pow2(attempt - 1)
        jitter == (base_delay * 20 * jitter_draw) \div 10000
    IN  Min(base_delay + jitter, cfg.max_retry_delay)

\* the wait of _api_call_with_retry after a failed attempt that is not the last
wait_time(cfg, attempt, rate_limited, jitter_draw) ==
    IF rate_limited THEN calculate_backoff_delay(cfg, attempt, jitter_draw)
    ELSE cfg.retry_delay * attempt

VendorCall(retry_delay, max_retry_delay) ==
    [cfg |-> [retry_delay |-> retry_delay, max_retry_delay |-> max_retry_delay],
     at |-> "calling", attempt |-> 1, slept |-> <<>>]

\* a failed attempt: sleep and try again, or raise after the last one
api_call_failed(call, rate_limited, jitter_draw) ==
    IF call.attempt < MaxRetries
    THEN [call EXCEPT !.attempt = @ + 1,
                      !.slept = Append(@, [attempt |-> call.attempt,
                                           rate_limited |-> rate_limited,
                                           wait_time |-> wait_time(call.cfg, call.attempt,
                                                                   rate_limited, jitter_draw)])]
    ELSE [call EXCEPT !.at = "raised"]

InitRetry == vendor_call = VendorCall(retry_delay_default, max_retry_delay_default)

\* ------------------------------------------- the start CLI (start.py, main.py)
\* the exit status of python main.py: exit(1) on an invalid frequency, an unknown
\* agent type or no enabled model; exit() with no status after an agent raised
main_py(agent) ==
    CASE agent = "invalid_config" -> 1
      [] agent = "run_failed" -> 0
      [] OTHER -> 0

\* start_agent: False when the configuration file is missing or the child
\* could not be spawned; the child's exit status is not looked at
cli_start_agent(env) ==
    IF ~env.config_exists THEN FALSE
    ELSE env.agent # "spawn_error"

\* cleanup(): stops the children and ends the process with sys.exit(0)
cleanup == 0

\* main() of start.py: the exit status of the process
start_main(mode, env) ==
    IF mode = "only_backend_and_agent" THEN 1
    ELSE IF ~env.venv_exists THEN 1
    ELSE IF env.unexpected_error THEN cleanup
    ELSE CASE mode \in {"only_backend", "live"} -> 0
           [] mode = "validate_only" -> IF env.data_valid THEN 0 ELSE 1
           [] mode = "only_data" -> IF env.data_prepared THEN 0 ELSE 1
           [] mode = "only_agent" -> IF cli_start_agent(env) THEN 0 ELSE 1
           [] OTHER ->
                IF ~env.backend_started THEN 1
                ELSE IF ~cli_start_agent(env) THEN cleanup
                ELSE cleanup

NoCli == [called |-> FALSE, mode |-> "none", env |-> <<>>, child_status |-> 0,
          exit_status |-> 0]

InitCli == cli = NoCli

\* ------------------------------------- the price tool (tool_get_price_local.py)
\* an answer of the tool: the timestamp of the bar it comes from, whether the
\* open price is in it, whether high, low, close and volume are in it
NotFound == [error |-> TRUE, raised |-> FALSE, bar_time |-> 0, open |-> FALSE, rest |-> FALSE]
Ohlcv(bar_time, rest) ==
    [error |-> FALSE, raised |-> FALSE, bar_time |-> bar_time, open |-> TRUE, rest |-> rest]

query_daily_ohlcv(tbl, symbol, date) ==
    IF \E r \in tbl : r.ts_code = symbol /\ r.trade_date = CastToDate(date)
    THEN Ohlcv(date, TRUE)
    ELSE NotFound
query_hourly_ohlcv(tbl, symbol, datetime_str) ==
    IF \E r \in tbl : r.ts_code = symbol /\ r.trade_time = datetime_str
    THEN Ohlcv(datetime_str, TRUE)
    ELSE NotFound

\* get_ohlcv_jsonl: the fields the line of the stock holds at the key date
get_ohlcv_jsonl(file, hourly_file, symbol, date) ==
    LET merged_file == IF IsHourly(date) THEN hourly_file ELSE file
        day == {b \in merged_file.bars : b.ts_code = symbol /\ b.time = date}
    IN  IF ~merged_file.exists \/ day = {} THEN NotFound
        ELSE Ohlcv(date, \E b \in day : b.full)

\* PriceDataAccess.get_ohlcv
get_ohlcv(daily_tbl, hourly_tbl, file, hourly_file, symbol, date, db_error) ==
    IF prefer_duckdb /\ db_error /\ ~fallback_enabled
    THEN [NotFound EXCEPT !.raised = TRUE]
    ELSE LET result == IF IsHourly(date) THEN query_hourly_ohlcv(hourly_tbl, symbol, date)
                       ELSE query_daily_ohlcv(daily_tbl, symbol, date)
         IN  IF prefer_duckdb /\ ~db_error /\ ~result.error THEN result
             ELSE get_ohlcv_jsonl(file, hourly_file, symbol, date)

\* get_price_local, get_price_local_daily and get_price_local_hourly: the
\* answer of get_ohlcv, masked when date is the TODAY_DATE of the session
get_price_local(daily_tbl, hourly_tbl, file, hourly_file, symbol, date, today_date, db_error) ==
    LET result == get_ohlcv(daily_tbl, hourly_tbl, file, hourly_file, symbol, date, db_error)
    IN  IF ~result.error /\ ~result.raised /\ date = today_date
        THEN [result EXCEPT !.rest = FALSE]
        ELSE result

NoLookup == [called |-> FALSE, symbol |-> "", date |-> 0, today_date |-> 0,
             result |-> NotFound]

InitPriceTool == price_lookup = NoLookup

InitOthers == InitRetry /\ InitCli /\ InitPriceTool

InitServices ==
    InitRunner /\ InitScheduler /\ InitBatch /\ InitIngestor /\ InitJournal /\ InitOthers

\* ------------------------------------------------------------ the machine
NoCall ==
    [op |-> "none", signature |-> "", date |-> 0, symbols |-> {}, db_error |-> FALSE]
        @@ NoAnswer

Call(op, signature, date, db_error, answer) ==
    [op |-> op, signature |-> signature, date |-> date, symbols |-> {},
     db_error |-> db_error] @@ answer

\* what a write call did: the rows and the line it added
Written(op, signature, date, action, pos, before_tbl, before_jsonl, w) ==
    [op |-> op, signature |-> signature, date |-> date, action |-> action,
     positions |-> pos, raised |-> w.raised,
     rows |-> SubSeq(w.tbl, Len(before_tbl) + 1, Len(w.tbl)),
     line |-> SubSeq(w.jsonl[signature], Len(before_jsonl[signature]) + 1,
                     Len(w.jsonl[signature]))]

NoBars == {}

Init ==
    /\ prefer_duckdb \in BOOLEAN
    /\ fallback_enabled \in BOOLEAN
    /\ positions = <<>>
    /\ position_jsonl = [s \in Signatures |-> <<>>]
    /\ history = <<>>
    /\ stock_daily_prices = NoBars
    /\ stock_hourly_prices = NoBars
    /\ merged_jsonl = NoFile
    /\ merged_hourly_jsonl = NoFile
    /\ last = NoCall
    /\ InitServices

AddPositionRecord ==
    /\ Len(history) < MaxSteps
    /\ \E signature \in Signatures, trade \in TradeInputs, jsonl_error \in BOOLEAN :
         \E date \in TimesOf(signature), done \in 0..NumRows(trade.positions) :
            /\ ~prefer_duckdb => done = NumRows(trade.positions)
            /\ LET action == trade.action
                   pos == trade.positions
                   w == add_position_record(positions, position_jsonl, date, signature,
                                            action, pos, done, jsonl_error)
               IN  /\ positions' = w.tbl
                   /\ position_jsonl' = w.jsonl
                   /\ history' = Append(history,
                          Written("add_position_record", signature, date, action, pos,
                                  positions, position_jsonl, w))
                   /\ last' = Call("add_position_record", signature, date,
                                   prefer_duckdb /\ done < NumRows(pos),
                                   Answer(w.raised, pos, -1, FALSE))
    /\ UNCHANGED <<services, config, market>>

AddNoTradeRecord ==
    /\ Len(history) < MaxSteps
    /\ \E signature \in Signatures, db_error \in BOOLEAN, jsonl_error \in BOOLEAN,
          done \in 0..Cardinality(Symbols) :
         \E today_date \in TimesOf(signature) :
            LET current == get_latest_position(positions, position_jsonl, today_date,
                                               signature, db_error)
                w == add_no_trade_record(positions, position_jsonl, today_date,
                                         signature, db_error, done, jsonl_error)
            IN  /\ ~prefer_duckdb => ~db_error
                /\ IF current.raised THEN done = 0 /\ ~jsonl_error
                   ELSE /\ done <= NumRows(current.positions)
                        /\ ~prefer_duckdb => done = NumRows(current.positions)
                /\ positions' = w.tbl
                /\ position_jsonl' = w.jsonl
                /\ history' = Append(history,
                       Written("add_no_trade_record", signature, today_date,
                               NoTradeAction, w.positions, positions, position_jsonl, w))
                /\ last' = Call("add_no_trade_record", signature, today_date, db_error,
                                Answer(w.raised, w.positions, current.id,
                                       current.jsonl_read))
    /\ UNCHANGED <<services, config, market>>

GetLatestPosition ==
    /\ \E signature \in Signatures, db_error \in BOOLEAN :
         \E today_date \in TimesOf(signature) :
            /\ ~prefer_duckdb => ~db_error
            /\ last' = Call("get_latest_position", signature, today_date, db_error,
                            get_latest_position(positions, position_jsonl, today_date,
                                                signature, db_error))
    /\ UNCHANGED <<services, config, ledger, market>>

GetTodayInitPosition ==
    /\ \E signature \in Signatures, db_error \in BOOLEAN :
         \E today_date \in TimesOf(signature) :
            /\ ~prefer_duckdb => ~db_error
            /\ last' = Call("get_today_init_position", signature, today_date, db_error,
                            get_today_init_position(positions, position_jsonl,
                                                    today_date, signature, db_error))
    /\ UNCHANGED <<services, config, ledger, market>>

Next ==
    \/ AddPositionRecord
    \/ AddNoTradeRecord
    \/ GetLatestPosition
    \/ GetTodayInitPosition

Spec == Init /\ [][Next]_vars

GetOpenPrices ==
    /\ \E today_date \in DailyDates \cup HourlyTimes, symbols \in SUBSET Symbols,
          db_error \in BOOLEAN :
            /\ ~prefer_duckdb => ~db_error
            /\ last' = [symbols |-> symbols] @@
                       Call("get_open_prices", "", today_date, db_error,
                            get_open_prices(stock_daily_prices, stock_hourly_prices,
                                            merged_jsonl, merged_hourly_jsonl,
                                            today_date, symbols, db_error))
    /\ UNCHANGED <<services, config, ledger, market>>

GetAllTradingDays ==
    /\ \E db_error \in BOOLEAN :
            /\ ~prefer_duckdb => ~db_error
            /\ last' = Call("get_all_trading_days", "", 0, db_error,
                            get_all_trading_days(stock_daily_prices, merged_jsonl,
                                                 db_error))
    /\ UNCHANGED <<services, config, ledger, market>>

\* today_date: a day or an hour of the stored range, or the day after it
GetYesterdayDate ==
    /\ \E today_date \in DailyDates \cup {DateToStr(NumDays + 1)} \cup HourlyTimes,
          db_error \in BOOLEAN :
            /\ ~prefer_duckdb => ~db_error
            /\ last' = Call("get_yesterday_date", "", today_date, db_error,
                            get_yesterday_date(stock_daily_prices, stock_hourly_prices,
                                               merged_jsonl, merged_hourly_jsonl,
                                               today_date, db_error))
    /\ UNCHANGED <<services, config, ledger, market>>

\* ------------------------------------------- the facade over stored data
\* A process starts on the files earlier runs left: data/aitrader.duckdb,
\* position.jsonl, merged.jsonl, merged_hourly.jsonl.
SeedPosition == ("A" :> 1) @@ (CASH :> 1)
NoLines == [s \in Signatures |-> <<>>]
\* no step, or one step of one agent held by the primary, the journal, or both
LedgerSeeds ==
    UNION {{[tbl |-> IF in_db
                     THEN insert_position_record(<<>>, sig, date, BuyAction, SeedPosition,
                                                 NumRows(SeedPosition))
                     ELSE <<>>,
             jsonl |-> IF in_jsonl
                       THEN add_position_record_jsonl(NoLines, date, sig, BuyAction,
                                                      SeedPosition)
                       ELSE NoLines] :
                date \in TimesOf(sig), in_db \in BOOLEAN, in_jsonl \in BOOLEAN} :
           sig \in Signatures}
\* bars of symbol A for the first n days / for every slot of the last day
DailyTable(n) == {[ts_code |-> "A", trade_date |-> d, open |-> 1] : d \in 1..n}
HourlyTable == {[ts_code |-> "A", trade_time |-> t, open |-> 1] : t \in HourlyTimes}
DailyFile(n) ==
    [exists |-> TRUE,
     bars |-> {[ts_code |-> "A", time |-> DateToStr(d), open |-> 1] : d \in 1..n}]
HourlyFile ==
    [exists |-> TRUE,
     bars |-> {[ts_code |-> "A", time |-> t, open |-> 1] : t \in HourlyTimes}]

InitFacade ==
    /\ prefer_duckdb \in BOOLEAN
    /\ fallback_enabled \in BOOLEAN
    /\ \E seed \in LedgerSeeds :
          /\ positions = seed.tbl
          /\ position_jsonl = seed.jsonl
    /\ history = <<>>
    /\ stock_daily_prices \in {DailyTable(n) : n \in 0..NumDays}
    /\ stock_hourly_prices \in {NoBars, HourlyTable}
    /\ merged_jsonl \in {NoFile} \cup {DailyFile(n) : n \in 0..NumDays}
    /\ merged_hourly_jsonl \in {NoFile, HourlyFile}
    /\ last = NoCall
    /\ InitServices

NextFacade ==
    \/ GetLatestPosition
    \/ GetTodayInitPosition
    \/ GetOpenPrices
    \/ GetAllTradingDays
    \/ GetYesterdayDate

SpecFacade == InitFacade /\ [][NextFacade]_vars

\* ------------------------------------------------------- ledger semantics
WriteOps == {"add_position_record", "add_no_trade_record"}

\* a write call whose every store write succeeded
Clean(e) ==
    /\ ~e.raised
    /\ Len(e.line) = 1
    /\ prefer_duckdb => Len(e.rows) = NumRows(e.positions)
AllClean == \A i \in 1..Len(history) : Clean(history[i])

\* a position map as the ledger means it: the symbols held and the cash
Holdings(p) == {<<s, p[s]>> : s \in {x \in DOMAIN p \ {CASH} : p[x] > 0}}
Cash(p) == IF CASH \in DOMAIN p THEN p[CASH] ELSE 0
SamePosition(p, q) == Holdings(p) = Holdings(q) /\ Cash(p) = Cash(q)

\* a write call that returned normally and left its step in some store
Stored(e) ==
    /\ ~e.raised
    /\ Len(e.line) = 1 \/ (prefer_duckdb /\ Len(e.rows) = NumRows(e.positions))
\* the steps of signature among the first n write calls
StepsOf(signature, n) ==
    {i \in 1..n : history[i].signature = signature /\ Stored(history[i])}
\* the one with the greatest (timestamp, step_id): steps are numbered in
\* insertion order
Greatest(idx) ==
    CHOOSE i \in idx :
        \A j \in idx :
            \/ history[i].date > history[j].date
            \/ history[i].date = history[j].date /\ i >= j
LatestAtOrBefore(signature, t, n) ==
    LET idx == {i \in StepsOf(signature, n) : history[i].date <= t}
    IN  IF idx = {} THEN EmptyPos ELSE history[Greatest(idx)].positions
LatestBefore(signature, t, n) ==
    LET idx == {i \in StepsOf(signature, n) : history[i].date < t}
    IN  IF idx = {} THEN EmptyPos ELSE history[Greatest(idx)].positions

\* the step ids a store held for the agent of call i before call i
DbStepsBefore(i) ==
    UNION {{history[j].rows[k].step_id : k \in 1..Len(history[j].rows)} :
              j \in {x \in 1..(i - 1) : history[x].signature = history[i].signature}}
JsonlIdsBefore(i) ==
    UNION {{history[j].line[k].id : k \in 1..Len(history[j].line)} :
              j \in {x \in 1..(i - 1) : history[x].signature = history[i].signature}}

\* C1: every new step gets step_id = 1 + the largest step_id already recorded
\* for its agent (0 for the first), in the primary store and in the journal.
C1_StepIdIsMaxPlusOne ==
    \A i \in 1..Len(history) :
        /\ \A k \in 1..Len(history[i].rows) :
               history[i].rows[k].step_id = MaxOf(DbStepsBefore(i), -1) + 1
        /\ \A k \in 1..Len(history[i].line) :
               history[i].line[k].id = MaxOf(JsonlIdsBefore(i), -1) + 1

\* the action a store holds for the newest step of the agent
DbAction(signature) ==
    LET rows == AgentRows(positions, signature)
        top == CHOOSE r \in rows : \A o \in rows : r.step_id >= o.step_id
    IN  <<top.action, top.action_amount>>
JsonlAction(signature) ==
    LET doc == position_jsonl[signature][Len(position_jsonl[signature])]
    IN  <<doc.this_action.action, doc.this_action.amount>>

\* C2: after a commit that returned without raising (here: one whose two
\* writes both succeeded), the step read back from the primary store and
\* the step read back from the journal agree in action, cash and holdings.
C2_DualWriteEquivalence ==
    (last.op \in WriteOps /\ prefer_duckdb /\ Clean(history[Len(history)])) =>
        LET db == query_latest_position(positions, last.signature, last.date)
            jl == get_latest_position_jsonl(position_jsonl, last.date, last.signature)
        IN  /\ db.positions = jl.positions
            /\ DbAction(last.signature) = JsonlAction(last.signature)

\* an answer of the primary store about the daily agent, no write having failed
ServedByPrimary ==
    /\ prefer_duckdb /\ ~last.raised /\ ~last.jsonl_read
    /\ last.signature = DailySig
    /\ AllClean

\* C3: latest_at_or_before(agent, t) returns the cash and holdings of the one
\* record of the agent with the greatest (timestamp, step_id) among those
\* with timestamp <= t, and an empty map when there is none (stated for the
\* daily agent and the primary store).
C3_LatestIsOneRecord ==
    (last.op = "get_latest_position" /\ ServedByPrimary) =>
        SamePosition(last.positions,
                     LatestAtOrBefore(last.signature, last.date, Len(history)))

\* C4: opening_position(agent, T) is the holdings-with-cash of the step with
\* the greatest (timestamp, step_id) among the steps strictly before T (stated
\* for the daily agent and the primary store).
C4_OpeningIsLatestBefore ==
    (last.op = "get_today_init_position" /\ ServedByPrimary) =>
        SamePosition(last.positions,
                     LatestBefore(last.signature, last.date, Len(history)))

\* C5: a commit raises exactly when no store recorded the step.
C5_RaisesIffNothingStored ==
    last.op = "add_position_record" =>
        LET e == history[Len(history)]
        IN  last.raised <=> (Len(e.rows) < NumRows(e.positions) /\ Len(e.line) = 0)

\* C6: the primary holds all rows of a step or none of them.
C6_NoPartialStep ==
    \A i \in 1..Len(history) :
        Len(history[i].rows) \in {0, NumRows(history[i].positions)}

\* C7: no store holds a symbol with quantity <= 0.
C7_NoZeroHolding ==
    /\ \A i \in 1..Len(positions) :
           positions[i].ts_code # NULL => positions[i].quantity > 0
    /\ \A sig \in Signatures : \A i \in 1..Len(position_jsonl[sig]) :
           \A s \in DOMAIN position_jsonl[sig][i].positions \ {CASH} :
               position_jsonl[sig][i].positions[s] > 0

\* C8: no_trade(agent, t) appends one no_trade step whose cash and holdings
\* are those of the agent's most recent step at or before t (stated for the
\* daily agent, when such a step exists and both writes of the call succeed).
C8_NoTradeCopiesLatest ==
    (/\ last.op = "add_no_trade_record"
     /\ Clean(history[Len(history)])
     /\ last.signature = DailySig
     /\ \E i \in StepsOf(last.signature, Len(history) - 1) :
            history[i].date <= last.date) =>
        LET e == history[Len(history)]
        IN  /\ e.action.action = "no_trade"
            /\ SamePosition(e.positions,
                            LatestAtOrBefore(e.signature, e.date, Len(history) - 1))

\* ------------------------------------------------ fallback of the reads
ReadOps ==
    {"get_latest_position", "get_today_init_position", "get_open_prices",
     "get_all_trading_days", "get_yesterday_date"}

\* the primary store holds nothing the last read asks for
PrimaryAnswersEmpty ==
    CASE last.op = "get_latest_position" ->
            \A r \in AgentRows(positions, last.signature) :
                r.trade_date > CastToDate(last.date)
      [] last.op = "get_today_init_position" ->
            \A r \in AgentRows(positions, last.signature) :
                r.trade_date >= CastToDate(last.date)
      [] last.op = "get_open_prices" -> last.symbols = {}
      [] last.op = "get_all_trading_days" -> stock_daily_prices = {}
      [] last.op = "get_yesterday_date" ->
            IF IsHourly(last.date)
            THEN \A b \in stock_hourly_prices : b.trade_time >= last.date
            ELSE \A b \in stock_daily_prices : b.trade_date >= CastToDate(last.date)
      [] OTHER -> FALSE

C10_ErrorPropagatesWithoutFallback ==
    (last.op \in ReadOps /\ prefer_duckdb /\ last.db_error /\ ~fallback_enabled) =>
        last.raised /\ ~last.jsonl_read

\* the primary raised, fallback is off, the journal holds an earlier step
C10_Witness ==
    /\ last.op = "get_today_init_position"
    /\ prefer_duckdb /\ last.db_error /\ ~fallback_enabled
    /\ \E i \in 1..Len(position_jsonl[last.signature]) :
          position_jsonl[last.signature][i].date < last.date
    /\ last.raised

\* ------------------------------------------------------------ open prices
\* C11: open_prices(symbols, timestamp) returns a map with exactly one entry
\* for every requested symbol (its open price or null), whichever of the
\* primary path or the journal path serves the read.
C11_OneEntryPerSymbol ==
    (last.op = "get_open_prices" /\ ~last.raised) =>
        DOMAIN last.prices = {PriceKey(sym) : sym \in last.symbols}

\* ------------------------------------------------- previous trading day
\* the timestamps of the granularity of the last read that have a bar in the
\* store that served it
StoredTimestamps ==
    IF last.jsonl_read
    THEN {b.time : b \in resolve_merged_file_path_for_date(merged_jsonl,
                                                           merged_hourly_jsonl,
                                                           last.date).bars}
    ELSE IF IsHourly(last.date)
    THEN {b.trade_time : b \in stock_hourly_prices}
    ELSE {DateToStr(b.trade_date) : b \in stock_daily_prices}

\* C12: previous_trading_timestamp(t) returns the greatest timestamp of the
\* granularity of t that has a bar in the store and is strictly less than t,
\* on the primary path and on the journal path alike (stated for the reads
\* for which the store holds such a timestamp).
C12_PreviousIsGreatestStored ==
    LET earlier == {ts \in StoredTimestamps : ts < last.date}
    IN  (last.op = "get_yesterday_date" /\ ~last.raised /\ earlier # {}) =>
            last.yesterday = Stamp(MaxOf(earlier, 0))

\* ------------------------------------------------- the runner's machine
SessionErrors == {"session error"}

StartAgent ==
    /\ Len(runs) < MaxRuns
    /\ \E model_config \in ModelConfigs :
          /\ runs' = start_agent(runs, model_config)
          /\ runner_event' = RunnerEvent("start_agent", Len(runs) + 1, TRUE, runs)
    /\ UNCHANGED <<data_access, scheduler, batch, runtime_env>>

\* the enabled models of the configuration, in its order
EnabledModels ==
    {<<[name |-> "gpt", basemodel |-> TRUE], [name |-> "qwen", basemodel |-> b]>> :
        b \in BOOLEAN}

StartAllEnabledAgents ==
    /\ \E enabled_models \in EnabledModels :
          /\ Len(runs) + Len(enabled_models) <= MaxRuns
          /\ runs' = start_all_enabled_agents(runs, enabled_models)
          /\ runner_event' = RunnerEvent("start_all_enabled_agents", Len(runs) + 1,
                                         TRUE, runs)
    /\ UNCHANGED <<data_access, scheduler, batch, runtime_env>>

\* the event loop runs the task of run_id for the first time
RunAgentBegin ==
    /\ \E run_id \in DOMAIN runs, e \in {NoError} \cup SessionErrors, fresh \in BOOLEAN :
          /\ runs[run_id].at = "created"
          /\ runs' = [runs EXCEPT ![run_id] = run_agent_begin(@, e)]
          /\ runtime_env' = run_agent_begin_env(runtime_env, runs[run_id], e, fresh)
          /\ runner_event' = RunnerEvent("run_agent_begin", run_id,
                                         run_agent_begin(runs[run_id], e).status # FAILED,
                                         runs)
    /\ UNCHANGED <<data_access, scheduler, batch>>

\* the event loop resumes the task of run_id
RunAgentResume ==
    /\ \E run_id \in DOMAIN runs, e \in {NoError} \cup SessionErrors :
          /\ runs[run_id].at \in {"initialize", "run_date_range"}
          /\ runs' = [runs EXCEPT ![run_id] =
                          IF @.at = "run_date_range" /\ ~@.must_cancel /\ e = NoError
                          THEN run_agent_resume(run_date_range_commit(@, runtime_env), e)
                          ELSE run_agent_resume(@, e)]
          /\ runner_event' = RunnerEvent(IF runs[run_id].must_cancel THEN "run_agent_cancelled"
                                         ELSE IF e # NoError THEN "run_agent_raised"
                                         ELSE "run_agent_returned",
                                         run_id, e = NoError, runs)
    /\ UNCHANGED <<data_access, scheduler, batch, runtime_env>>

CancelRun ==
    /\ \E run_id \in 1..MaxRuns :
          LET c == cancel_run(runs, run_id)
          IN  /\ runs' = c.runs
              /\ runner_event' = RunnerEvent("cancel_run", run_id, c.result, runs)
    /\ UNCHANGED <<data_access, scheduler, batch, runtime_env>>

NextRunner ==
    \/ StartAgent
    \/ StartAllEnabledAgents
    \/ RunAgentBegin
    \/ RunAgentResume
    \/ CancelRun

SpecRunner == Init /\ [][NextRunner]_vars

\* C13: cancel(run_id) on a pending run sets its status to cancelled; on a
\* running run it requests the cancellation of its task.
C13_CancelPendingOrRunning ==
    (runner_event.op = "cancel_run" /\ runner_event.run_id \in DOMAIN runner_event.before) =>
        LET was == runner_event.before[runner_event.run_id]
            now == runs[runner_event.run_id]
        IN  /\ was.status = PENDING => now.status = CANCELLED
            /\ was.status = RUNNING => now.must_cancel

\* C14: when the session of a run raises, that run ends failed with
\* error_message set, and every other run of the registry is left as it was.
C14_FailureStaysInItsRun ==
    runner_event.op \in {"run_agent_raised", "run_agent_begin"} =>
        LET i == runner_event.run_id
        IN  /\ ~runner_event.result =>
                  /\ runs[i].status = FAILED
                  /\ runs[i].error_message # NoError
                  /\ runs[i].completed_at
            /\ \A j \in DOMAIN runs \ {i} : runs[j] = runner_event.before[j]

\* the session of a run raised while a sibling run was running
C14_Witness ==
    /\ runner_event.op = "run_agent_raised"
    /\ runs[runner_event.run_id].status = FAILED
    /\ runs[runner_event.run_id].error_message \in SessionErrors
    /\ \E j \in DOMAIN runs \ {runner_event.run_id} : runs[j].status = RUNNING


\* ---------------------------------------------- the scheduler's machine
\* the models of a configuration file: gpt enabled and complete, then
\* possibly qwen; "signature" is the field LiveTradingScheduler reads
SchedulerModels ==
    {<<[name |-> "gpt", enabled |-> TRUE, basemodel |-> TRUE, signature |-> s]>> :
        s \in {"gpt", "gpt-live"}}
    \cup {<<[name |-> "gpt", enabled |-> TRUE, basemodel |-> TRUE, signature |-> "gpt-live"],
            [name |-> "qwen", enabled |-> e, basemodel |-> b, signature |-> "qwen-live"]>> :
            e \in BOOLEAN, b \in BOOLEAN}

\* wall-clock times of a manual trigger
ManualTimes == {<<9, 50>>, <<10, 40>>, <<13, 20>>}
CronTimes(frequency) == IF frequency = DAILY THEN {ASTOCK_DAILY_TIME} ELSE ASTOCK_HOURLY_TIMES
RefreshOutcomes == {"ok", "failed", "raised"}

\* SchedulerService.start_scheduler(config, frequency)
StartScheduler ==
    /\ scheduler_config.kind = "none"
    /\ \E frequency \in {DAILY, HOURLY}, models \in SchedulerModels :
          scheduler_config' = [kind |-> SERVICE, frequency |-> frequency, models |-> models]
    /\ UNCHANGED <<data_access, runner, batch, executions>>

\* LiveTradingScheduler(config_path, "cn", frequency).start()
StartLiveTradingScheduler ==
    /\ scheduler_config.kind = "none"
    /\ \E frequency \in {DAILY, HOURLY}, models \in SchedulerModels :
          scheduler_config' = [kind |-> STANDALONE, frequency |-> frequency, models |-> models]
    /\ UNCHANGED <<data_access, runner, batch, executions>>

\* a cron job fires; a job whose previous instance still runs is skipped
\* (APScheduler's max_instances is left at 1)
CronFires ==
    /\ scheduler_config.kind # "none"
    /\ Len(executions) < MaxExecutions
    /\ \E now \in CronTimes(scheduler_config.frequency) :
          /\ \A i \in DOMAIN executions :
                (executions[i].fired_by = "cron" /\ executions[i].started_at = now)
                    => executions[i].at = "done"
          /\ executions' = Append(executions, Execution("cron", now))
    /\ UNCHANGED <<data_access, runner, batch, scheduler_config>>

\* SchedulerService.trigger_now / LiveTradingScheduler.run_now
TriggerNow ==
    /\ scheduler_config.kind # "none"
    /\ Len(executions) < MaxExecutions
    /\ \E now \in ManualTimes :
          executions' = Append(executions, Execution("manual", now))
    /\ UNCHANGED <<data_access, runner, batch, scheduler_config>>

UpdatePricesDone ==
    /\ \E i \in DOMAIN executions, outcome \in RefreshOutcomes :
          /\ executions[i].at = "update_prices"
          /\ executions' = [executions EXCEPT ![i] =
                trigger_now_returns(scheduler_config,
                                    refresh_done(scheduler_config, @, outcome))]
    /\ UNCHANGED <<data_access, runner, batch, scheduler_config>>

InitializeDone ==
    /\ \E i \in DOMAIN executions, raised \in BOOLEAN :
          /\ executions[i].at = "initialize"
          /\ executions' = [executions EXCEPT ![i] =
                trigger_now_returns(scheduler_config,
                                    initialize_done(scheduler_config, @, raised))]
    /\ UNCHANGED <<data_access, runner, batch, scheduler_config>>

RunTradingSessionDone ==
    /\ \E i \in DOMAIN executions, raised \in BOOLEAN :
          /\ executions[i].at = "run_trading_session"
          /\ executions' = [executions EXCEPT ![i] =
                trigger_now_returns(scheduler_config,
                                    session_done(scheduler_config, @, raised))]
    /\ UNCHANGED <<data_access, runner, batch, scheduler_config>>

NextScheduler ==
    \/ StartScheduler
    \/ StartLiveTradingScheduler
    \/ CronFires
    \/ TriggerNow
    \/ UpdatePricesDone
    \/ InitializeDone
    \/ RunTradingSessionDone

SpecScheduler == Init /\ [][NextScheduler]_vars

\* the rounds of the model loop of execution x that were for model_name
InvocationsOf(x, model_name) ==
    {i \in DOMAIN x.events : x.events[i].kind = "invoke" /\ x.events[i].model_name = model_name}

\* C15: in every execution the refresh ends before any agent is invoked, and
\* a finished execution has invoked every enabled agent exactly once, each
\* with the aligned timestamp of the execution, whatever the refresh did.
C15_RefreshThenEveryEnabledAgentOnce ==
    \A n \in DOMAIN executions :
        LET x == executions[n]
        IN  /\ \A i \in DOMAIN x.events :
                  x.events[i].kind # "refresh" => (i > 1 /\ x.events[1].kind = "refresh")
            /\ x.at = "done" =>
                  \A k \in DOMAIN enabled_models_of(scheduler_config) :
                      LET calls == InvocationsOf(x, enabled_models_of(scheduler_config)[k].name)
                      IN  /\ Cardinality(calls) = 1
                          /\ \A i \in calls :
                                x.events[i].today_date =
                                    trading_date(scheduler_config.frequency, x.started_at)


\* the timestamps execution x has handed to agent.run_trading_session
SessionTimestamps(x) ==
    {x.events[i].today_date : i \in {j \in DOMAIN x.events : x.events[j].kind = "session"}}

\* C16: under hourly frequency every timestamp SchedulerService hands to an
\* agent session, cron-fired or manually triggered, has a time of day among
\* 10:30:00, 11:30:00, 14:00:00 and 15:00:00.
C16_SessionTimestampsOnSchedule ==
    (scheduler_config.kind = SERVICE /\ scheduler_config.frequency = HOURLY) =>
        \A n \in DOMAIN executions :
            SessionTimestamps(executions[n]) \subseteq
                {TRADING_HOURS[i] : i \in DOMAIN TRADING_HOURS}


\* C17: every live session, of either scheduler, writes under the signature
\* <model>-live (followed by -astock-hour when hourly), which is never the
\* signature of a backtest of the same model and frequency.
C17_LiveSessionsUseLiveSignature ==
    \A n \in DOMAIN executions :
        \A i \in DOMAIN executions[n].events :
            LET ev == executions[n].events[i]
            IN  ev.kind = "session" =>
                    /\ ev.signature = generate_signature(ev.model_name,
                                                         scheduler_config.frequency, LIVE)
                    /\ ev.signature # generate_signature(ev.model_name,
                                                         scheduler_config.frequency, BACKTEST)


\* ------------------------------------------------ the backtest date range
Weekdays == {d \in 1..NumCalendarDays : Weekday(d) < 5}
\* the days with bars in the price file: the weekdays, possibly less a holiday
Calendars == {Weekdays} \cup {Weekdays \ {h} : h \in Weekdays}
\* the ledger of a backtest agent: its records are dated at bars of the file
PositionDates(frequency, calendar) ==
    LET stamps == IF frequency = HOURLY
                  THEN {Timestamp(d, TRADING_HOURS[i]) : d \in calendar, i \in DOMAIN TRADING_HOURS}
                  ELSE {Date(d) : d \in calendar}
    IN  {{}} \cup {{ts} : ts \in stamps}
             \cup {{Date(CHOOSE d \in calendar : \A o \in calendar : d <= o)} \cup {ts} : ts \in stamps}

\* main(): "init_date, end_date = calculate_date_range(signature, frequency)",
\* once in a run of main for a model
CalculateDateRange ==
    /\ ~date_range.called
    /\ \E frequency \in {DAILY, HOURLY}, calendar \in Calendars :
          \E position_dates \in PositionDates(frequency, calendar) :
              LET r == calculate_date_range(position_dates, frequency, calendar,
                                            NumCalendarDays)
              IN  date_range' = [called |-> TRUE, frequency |-> frequency,
                                 position_dates |-> position_dates, calendar |-> calendar,
                                 start_date |-> r.start_date, end_date |-> r.end_date]
    /\ UNCHANGED <<data_access, runner, scheduler, ingestor, journal, others>>

NextDateRange == CalculateDateRange

SpecDateRange == Init /\ [][NextDateRange]_vars

\* the hourly trading timestamps of the weekdays up to the week after the
\* calendar
HourlyGrid ==
    {Timestamp(d, TRADING_HOURS[i]) :
        d \in {w \in 1..(NumCalendarDays + 7) : Weekday(w) < 5}, i \in DOMAIN TRADING_HOURS}

\* C18: with a ledger tip, the computed start is the next trading timestamp
\* strictly after the tip: daily, the next day of the calendar; hourly, the
\* next slot of 10:30, 11:30, 14:00, 15:00 on a weekday.
C18_StartIsNextTradingTimestamp ==
    (date_range.called /\ date_range.position_dates # {}) =>
        LET tip == LatestOf(date_range.position_dates)
            start == date_range.start_date
            later_days == {d \in date_range.calendar : d > tip.day}
            later_slots == {g \in HourlyGrid : TsKey(g) > TsKey(tip)}
        IN  IF date_range.frequency = DAILY
            THEN later_days # {} =>
                     start = Date(CHOOSE d \in later_days : \A o \in later_days : d <= o)
            ELSE /\ start \in later_slots
                 /\ \A g \in later_slots : TsKey(start) <= TsKey(g)
                 /\ Weekday(start.day) < 5


\* ------------------------------------------------ the ingestor's machine
\* the ingestor starts on the ledgers and the table earlier processes left:
\* no agent, or the daily agent holding A
InitIngest ==
    /\ prefer_duckdb \in BOOLEAN
    /\ fallback_enabled = TRUE
    /\ positions = <<>>
    /\ position_jsonl \in {seed.jsonl : seed \in {l \in LedgerSeeds :
                              l.tbl = <<>> /\ l.jsonl[HourlySig] = <<>>}}
    /\ history = <<>>
    /\ stock_daily_prices \in {NoBars, DailyTable(1)}
    /\ stock_hourly_prices = NoBars
    /\ merged_jsonl = NoFile
    /\ merged_hourly_jsonl = NoFile
    /\ last = NoCall
    /\ InitServices

\* the indexes the vendor may report: both stocks, B alone (A was dropped), or
\* an empty answer
ConstituentLists == {Symbols, {"B"}, {}}

\* midnight
TimePasses ==
    /\ vendor_world.today < NumIngestDays
    /\ vendor_world' = [vendor_world EXCEPT !.today = @ + 1]
    /\ ingest_event' = IngestEvent("time", FALSE, daily_prices_csv)
    /\ UNCHANGED <<data_access, runner, scheduler, date_range, journal, others, daily_prices_csv>>

\* the vendor publishes the bars of today, reports another index, or the
\* requests of other stocks start to fail
VendorChanges ==
    /\ \E published \in {vendor_world.published,
                          vendor_world.published \cup {vendor_world.today}},
          constituents \in ConstituentLists, failing \in SUBSET Symbols :
          /\ World(vendor_world.today, published, constituents, failing) # vendor_world
          /\ vendor_world' = World(vendor_world.today, published, constituents, failing)
    /\ ingest_event' = IngestEvent("vendor", FALSE, daily_prices_csv)
    /\ UNCHANGED <<data_access, runner, scheduler, date_range, journal, others, daily_prices_csv>>

\* python get_daily_price_akshare.py --start-date <day 1>
RunIngestor ==
    /\ daily_prices_csv' = get_daily_price_a_stock(daily_prices_csv, stock_daily_prices,
                                                   position_jsonl, vendor_world, 1)
    /\ ingest_event' = IngestEvent("run", ingest_event.op = "run", daily_prices_csv)
    /\ UNCHANGED <<data_access, runner, scheduler, date_range, journal, others, vendor_world>>

NextIngest ==
    \/ TimePasses
    \/ VendorChanges
    \/ RunIngestor

SpecIngest == InitIngest /\ [][NextIngest]_vars

\* C19: a run of the daily ingestor that directly follows another run, with
\* the clock and the vendor unchanged in between, leaves the stored bars as
\* the first run left them: no row more, no row changed.
C19_SecondRunAddsNothing ==
    (ingest_event.op = "run" /\ ingest_event.repeat) =>
        /\ RowSet(daily_prices_csv.rows) = RowSet(ingest_event.before.rows)
        /\ Len(daily_prices_csv.rows) = Len(ingest_event.before.rows)

\* a second run in a row on a file that holds bars and ends before today, so
\* that the run did ask the vendor
C19_Witness ==
    /\ ingest_event.op = "run"
    /\ ingest_event.repeat
    /\ daily_prices_csv.rows # <<>>
    /\ get_latest_date_from_csv(daily_prices_csv) # {}
    /\ \A d \in get_latest_date_from_csv(daily_prices_csv) : d < vendor_world.today
    /\ vendor_world.published # {}

\* C20: after one run of the ingestor with the vendor answering for every
\* stock, each stock an agent holds that is no constituent of the index has a
\* stored bar at the latest published trading day, whatever the file held.
C20_HeldStocksAreRefreshed ==
    (/\ ingest_event.op = "run"
     /\ vendor_world.failing = {}
     /\ vendor_world.constituents # {}
     /\ vendor_world.published # {}) =>
        \A s \in get_all_held_stocks(position_jsonl) \ vendor_world.constituents :
            <<s, MaxOf(vendor_world.published, 0)>> \in
                CsvKeys(daily_prices_csv.rows)
                    \cup {<<b.ts_code, b.trade_date>> : b \in stock_daily_prices}


\* ------------------------------------------- the journal writers' machine
\* daily_prices_sse_50.csv with the bars of both stocks for the first n days
CsvOfDays(n) ==
    [exists |-> TRUE,
     rows |-> sort_values({[ts_code |-> s, trade_date |-> d, close |-> 1] :
                              s \in Symbols, d \in 1..n})]

\* the writers start on the CSV the ingestor left; merged.jsonl is not there
\* yet
InitEmptyStores ==
    /\ prefer_duckdb = FALSE
    /\ fallback_enabled = TRUE
    /\ positions = <<>>
    /\ position_jsonl = NoLines
    /\ history = <<>>
    /\ stock_daily_prices = NoBars
    /\ stock_hourly_prices = NoBars
    /\ merged_jsonl = NoFile
    /\ merged_hourly_jsonl = NoFile
    /\ last = NoCall

InitMerge ==
    /\ InitEmptyStores
    /\ InitRunner /\ InitScheduler /\ InitBatch /\ InitJournal /\ InitOthers
    /\ daily_prices_csv \in {CsvOfDays(n) : n \in 1..NumIngestDays}
    /\ vendor_world = World(1, {}, Symbols, {})
    /\ ingest_event = IngestEvent("none", FALSE, NoCsv)

JournalFrame ==
    UNCHANGED <<config, ledger, stock_daily_prices, stock_hourly_prices,
                merged_hourly_jsonl, last, runner, scheduler, date_range, ingestor,
                others>>

\* python merge_jsonl.py, up to "with open(output_path, 'w')"
MergeBegins ==
    /\ journal_writer.at # "writing"
    /\ journal_writer.rewrites < MaxRewrites
    /\ daily_prices_csv.exists
    /\ journal_writer' = open_for_writing(merged_jsonl,
                                          convert_a_stock_to_jsonl(daily_prices_csv.rows),
                                          journal_writer.rewrites)
    /\ merged_jsonl' = [exists |-> TRUE, bars |-> {}]
    /\ UNCHANGED journal_seen
    /\ JournalFrame

\* update_realtime_prices, up to "with open(self.data_file, 'w')" of
\* append_prices_to_merged; it returns before that when no line is updated
\* only after writing, so the file is rewritten whenever prices were fetched
RefreshBegins ==
    /\ journal_writer.at # "writing"
    /\ journal_writer.rewrites < MaxRewrites
    /\ merged_jsonl.exists
    /\ \E prices \in SUBSET Symbols \ {{}}, day \in 1..(NumIngestDays + 1) :
          /\ journal_writer' = open_for_writing(merged_jsonl,
                                   append_prices_to_merged(merged_jsonl, prices,
                                                           DateToStr(day)),
                                   journal_writer.rewrites)
          /\ merged_jsonl' = [exists |-> TRUE, bars |-> {}]
    /\ UNCHANGED journal_seen
    /\ JournalFrame

\* the next line reaches the disk
WriterWrites ==
    /\ journal_writer.at = "writing"
    /\ journal_writer.queue # <<>>
    /\ merged_jsonl' = [merged_jsonl EXCEPT !.bars = @ \cup Head(journal_writer.queue)]
    /\ journal_writer' = [journal_writer EXCEPT !.queue = Tail(@)]
    /\ UNCHANGED journal_seen
    /\ JournalFrame

\* the with block ends
WriterCloses ==
    /\ journal_writer.at = "writing"
    /\ journal_writer.queue = <<>>
    /\ journal_writer' = IdleWriter(merged_jsonl, journal_writer.rewrites)
    /\ UNCHANGED <<merged_jsonl, journal_seen>>
    /\ JournalFrame

\* the writer is killed; the file stays as it is
WriterCrashes ==
    /\ journal_writer.at = "writing"
    /\ journal_writer' = [journal_writer EXCEPT !.at = "crashed"]
    /\ UNCHANGED <<merged_jsonl, journal_seen>>
    /\ JournalFrame

\* another process reads the whole file
ReaderReads ==
    /\ journal_seen' = [read |-> TRUE, file |-> merged_jsonl,
                        old |-> journal_writer.old, new |-> journal_writer.new]
    /\ UNCHANGED <<merged_jsonl, journal_writer>>
    /\ JournalFrame

NextMerge ==
    \/ MergeBegins
    \/ RefreshBegins
    \/ WriterWrites
    \/ WriterCloses
    \/ WriterCrashes
    \/ ReaderReads

SpecMerge == InitMerge /\ [][NextMerge]_vars

\* C21: whoever reads merged.jsonl, while a writer runs or after one crashed,
\* finds the complete file of before the rewrite or the complete new one.
C21_ReaderSeesOldOrNew ==
    journal_seen.read => journal_seen.file \in {journal_seen.old, journal_seen.new}


\* --------------------------------------------- the retry loop's machine
RetryDelays == {100, 500}
MaxRetryDelays == {800, 6000}

InitRetryLoop ==
    /\ InitEmptyStores
    /\ InitRunner /\ InitScheduler /\ InitBatch /\ InitIngestor /\ InitJournal
    /\ InitCli /\ InitPriceTool
    /\ vendor_call \in {VendorCall(d, c) : d \in RetryDelays, c \in MaxRetryDelays}

RetryFrame ==
    UNCHANGED <<data_access, runner, scheduler, date_range, ingestor, journal, cli,
                price_lookup>>

\* api_func(**kwargs) returns
ApiCallSucceeds ==
    /\ vendor_call.at = "calling"
    /\ vendor_call' = [vendor_call EXCEPT !.at = "returned"]
    /\ RetryFrame

\* api_func(**kwargs) raises, with a rate-limit message or with another one
ApiCallFails ==
    /\ vendor_call.at = "calling"
    /\ \E rate_limited \in BOOLEAN, jitter_draw \in JitterDraws :
          vendor_call' = api_call_failed(vendor_call, rate_limited, jitter_draw)
    /\ RetryFrame

NextRetry ==
    \/ ApiCallSucceeds
    \/ ApiCallFails

SpecRetry == InitRetryLoop /\ [][NextRetry]_vars

\* C22: every delay slept between two attempts is at most max_retry_delay and
\* is retry_delay * 2^(k-1) after failed attempt k, within 20% either way
\* before the cap, whatever the error was.
C22_DelaysAreCappedExponential ==
    \A i \in DOMAIN vendor_call.slept :
        LET s == vendor_call.slept[i]
            base_delay == vendor_call.cfg.retry_delay * Pow2(s.attempt - 1)
            ceiling == vendor_call.cfg.max_retry_delay
        IN  /\ s.wait_time <= ceiling
            /\ \/ /\ 10 * s.wait_time >= 8 * base_delay
                  /\ 10 * s.wait_time <= 12 * base_delay
               \/ /\ s.wait_time = ceiling
                  /\ 12 * base_delay >= 10 * ceiling


\* ------------------------------------------------- the start CLI's machine
CliModes ==
    {"only_backend_and_agent", "only_backend", "live", "validate_only", "only_data",
     "only_agent", "backtest"}
AgentOutcomes == {"completed", "run_failed", "invalid_config", "spawn_error"}
CliEnvs ==
    [venv_exists : BOOLEAN, config_exists : BOOLEAN, data_valid : BOOLEAN,
     data_prepared : BOOLEAN, backend_started : BOOLEAN, unexpected_error : BOOLEAN,
     agent : AgentOutcomes]

\* python start.py <options>, to the end of the process
StartMain ==
    /\ ~cli.called
    /\ \E mode \in CliModes, env \in CliEnvs :
          cli' = [called |-> TRUE, mode |-> mode, env |-> env,
                  child_status |-> main_py(env.agent),
                  exit_status |-> start_main(mode, env)]
    /\ UNCHANGED <<data_access, runner, scheduler, date_range, ingestor, journal,
                   vendor_call, price_lookup>>

NextCli == StartMain

SpecCli == Init /\ [][NextCli]_vars

\* the steps of start.py that the mode runs after the checks of its arguments
RunsAgent(c) ==
    /\ c.mode \in {"only_agent", "backtest"}
    /\ c.env.venv_exists /\ ~c.env.unexpected_error
    /\ c.mode = "backtest" => c.env.backend_started
\* what went wrong in the run, if anything
ConfigError(c) ==
    \/ c.mode = "only_backend_and_agent"
    \/ ~c.env.venv_exists
    \/ c.mode = "validate_only" /\ ~c.env.unexpected_error /\ ~c.env.data_valid
    \/ RunsAgent(c) /\ (~c.env.config_exists \/ c.env.agent = "invalid_config")
RuntimeFailure(c) ==
    /\ ~ConfigError(c)
    /\ \/ c.env.unexpected_error
       \/ RunsAgent(c) /\ c.env.agent \in {"run_failed", "spawn_error"}

\* C23: start.py exits with 0 only on success, with 1 on a validation or
\* configuration error and with 2 on a runtime failure (a failed agent run or
\* an unexpected error never gives 0).
C23_ExitStatusTellsTheOutcome ==
    cli.called =>
        /\ ConfigError(cli) => cli.exit_status = 1
        /\ RuntimeFailure(cli) => cli.exit_status = 2
        /\ cli.exit_status = 0 => ~ConfigError(cli) /\ ~RuntimeFailure(cli)


\* a run whose task has started and has not ended
InFlight(run) == run.at \in {"initialize", "run_date_range"}

\* C24: under any interleaving of two runs, the commits of a run that executes
\* concurrently with another go to its own ledger, the one under the log path
\* and the signature it was started with.
C24_CommitsGoToOwnLedger ==
    \A run_id \in DOMAIN runs, other \in DOMAIN runs :
        (run_id # other /\ InFlight(runs[other]) /\ runs[run_id].position_file # NoPath) =>
            runs[run_id].position_file = <<derive_log_path, runs[run_id].model_name>>


\* ------------------------------------------------------- read your writes
\* C25: after a commit returned without raising, the latest_at_or_before of
\* the same agent and timestamp that follows it at once returns the cash and
\* holdings of that commit, also when a primary write failed and only the
\* journal holds the step.
C25_ReadYourWrites ==
    (last.op = "add_position_record" /\ ~last.raised) =>
        LET e == history[Len(history)]
            r == get_latest_position(positions, position_jsonl, e.date, e.signature, FALSE)
        IN  ~r.raised /\ SamePosition(r.positions, e.positions)


\* --------------------------------------------------- the life of a run
Terminal == {COMPLETED, FAILED, CANCELLED}

\* the moves of a run's status over one step of the runner; a task that fails
\* before its first await has been running within the step (started_at is set)
StatusMove(was, now) ==
    CASE was.status = PENDING ->
            \/ now.status \in {PENDING, RUNNING}
            \/ now.status \in Terminal /\ now.started_at
      [] was.status = RUNNING -> now.status \in {RUNNING} \cup Terminal
      [] OTHER -> now = was

\* C26: the status of a run moves pending -> running -> completed, failed or
\* cancelled only; a run that ended is never changed by a later start, cancel
\* or task step; completed_at is set exactly in the three end states.
C26_StatusMovesForwardOnly ==
    \A j \in DOMAIN runs :
        /\ runs[j].completed_at <=> runs[j].status \in Terminal
        /\ IF j \in DOMAIN runner_event.before
           THEN StatusMove(runner_event.before[j], runs[j])
           ELSE runs[j].status = PENDING

\* cancel_run was called on a run that had ended, next to a cancelled run
C26_Witness ==
    /\ runner_event.op = "cancel_run"
    /\ runner_event.run_id \in DOMAIN runner_event.before
    /\ runner_event.before[runner_event.run_id].status = COMPLETED
    /\ \E j \in DOMAIN runs : runs[j].status = CANCELLED /\ runs[j].completed_at


\* --------------------------------------------- refresh keys and triggers
\* C27: for every cron firing time the refresh of an execution stores the
\* bars it fetched under the aligned timestamp that the execution hands to
\* its agent sessions.
C27_RefreshKeyIsSessionTimestamp ==
    \A n \in DOMAIN executions :
        LET x == executions[n]
        IN  x.fired_by = "cron" =>
                \A i \in DOMAIN x.events :
                    (x.events[i].kind = "refresh" /\ x.events[i].outcome = "ok") =>
                        x.events[i].time_key =
                            trading_date(scheduler_config.frequency, x.started_at)

InProgress == {n \in DOMAIN executions : executions[n].at # "done"}

\* C28: at most one execution of the scheduler is in progress at any time,
\* cron-fired or manually triggered.
C28_OneExecutionAtATime == Cardinality(InProgress) <= 1

\* C29: trigger_now answers success only for an execution that finished with
\* an empty errors list.
C29_SuccessMeansNoErrors ==
    \A n \in DOMAIN executions :
        executions[n].reported = "success" => executions[n].errors = <<>>


\* ------------------------------------------------- the price tool's machine
\* merged.jsonl as merge_jsonl.py writes it from a CSV of n days
MergedFile(n) ==
    [exists |-> TRUE, bars |-> BarsOf(convert_a_stock_to_jsonl(CsvOfDays(n).rows))]
\* merged_hourly.jsonl with the bars the refresh appended
MergedHourlyFile ==
    [exists |-> TRUE, bars |-> {MergedBar(s, t, TRUE) : s \in Symbols, t \in HourlyTimes}]

InitPrices ==
    /\ prefer_duckdb \in BOOLEAN
    /\ fallback_enabled \in BOOLEAN
    /\ positions = <<>>
    /\ position_jsonl = NoLines
    /\ history = <<>>
    /\ stock_daily_prices \in {DailyTable(n) : n \in 0..NumDays}
    /\ stock_hourly_prices \in {NoBars, HourlyTable}
    /\ merged_jsonl \in {NoFile} \cup {MergedFile(n) : n \in 1..NumDays}
    /\ merged_hourly_jsonl \in {NoFile, MergedHourlyFile}
    /\ last = NoCall
    /\ InitServices

\* the agent of a session at today_date calls get_price_local(symbol, date)
GetPriceLocal ==
    /\ \E symbol \in Symbols, date \in DailyDates \cup HourlyTimes,
          today_date \in DailyDates \cup HourlyTimes, db_error \in BOOLEAN :
          /\ ~prefer_duckdb => ~db_error
          /\ price_lookup' =
                [called |-> TRUE, symbol |-> symbol, date |-> date,
                 today_date |-> today_date,
                 result |-> get_price_local(stock_daily_prices, stock_hourly_prices,
                                            merged_jsonl, merged_hourly_jsonl, symbol,
                                            date, today_date, db_error)]
    /\ UNCHANGED <<data_access, runner, scheduler, date_range, ingestor, journal,
                   vendor_call, cli>>

NextPrices == GetPriceLocal

SpecPrices == InitPrices /\ [][NextPrices]_vars

\* C30: in a session at T a lookup never returns the high, low, close or
\* volume of the bar at T, nor any field of a bar later than T, whatever date
\* is asked for and whatever bars the store holds.
C30_NoLookAhead ==
    (price_lookup.called /\ ~price_lookup.result.error /\ ~price_lookup.result.raised) =>
        /\ price_lookup.result.bar_time <= price_lookup.today_date
        /\ price_lookup.result.bar_time = price_lookup.today_date =>
              ~price_lookup.result.rest

====
